---- MODULE Spec2Model ----
(***************************************************************************)
(* Smart-Excalidraw: the streaming repair-and-apply pipeline of the page   *)
(* component (postProcessExcalidrawCode, fixUnescapedQuotes,               *)
(* handleSendMessage, tryParseAndApply and the handlers around them).      *)
(*                                                                         *)
(* Text is a sequence of one-character strings.  A JavaScript value is a   *)
(* record [t, v]: t names the type, v holds the characters or the members. *)
(***************************************************************************)
EXTENDS Integers, Sequences, FiniteSets, TLC

VARIABLES
  ncode,            \* Normalizer harness: the argument of postProcessExcalidrawCode
  nsrc,             \* Normalizer harness: how the argument was put together
  nout,             \* Normalizer harness: the outcome of the call
  npc               \* Normalizer harness: "ready" before the call, "done" after

nvars == <<ncode, nsrc, nout, npc>>

VARIABLES
  config,           \* useState(null): "none", "invalid" or "valid" provider configuration
  excalidrawAPI,    \* useState(null): TRUE once the canvas has handed over its API
  isConfigModalOpen,
  generatedCode,    \* useState(''): the editor text
  elements,         \* useState([]): the live Diagram
  isGenerating,
  isApplyingCode,
  isOptimizingCode,
  apiError,         \* useState(null)
  jsonError,        \* useState(null)
  pc,               \* where the handleSendMessage call in flight stands
  accumulatedCode,  \* handleSendMessage: let accumulatedCode
  buffer,           \* handleSendMessage: let buffer, the line that has no newline yet
  genAPI,           \* handleSendMessage: the excalidrawAPI its closure captured
  optimizedCode,    \* handleSendMessage: const optimizedCode
  applyCode,        \* handleApplyCode: the generatedCode its closure captured
  optimizeCode,     \* handleOptimizeCode: the generatedCode its closure captured
  history,          \* the codes saveDiagramToHistory has stored
  doc,              \* upstream: the complete text the provider is answering with
  sent,             \* upstream: how many characters of doc went out in complete lines
  upstreamError,    \* upstream: whether an error payload went out in this generation
  ops,              \* number of user actions so far
  sends,            \* number of generations started so far
  step,             \* the handler step taken last
  calls             \* the tryParseAndApply calls of the step taken last

uivars == <<generatedCode, elements, apiError, jsonError, calls>>
genvars == <<pc, accumulatedCode, buffer, genAPI, optimizedCode, doc, sent, upstreamError>>
pvars ==
  <<config, excalidrawAPI, isConfigModalOpen, generatedCode, elements, isGenerating,
    isApplyingCode, isOptimizingCode, apiError, jsonError, pc, accumulatedCode, buffer,
    genAPI, optimizedCode, applyCode, optimizeCode, history, doc, sent, upstreamError,
    ops, sends, step, calls>>

VARIABLES
  oin,              \* Optimizer harness: the elements handed to the function under test
  ocolors,          \* Optimizer harness: the palette key or the color scheme handed over
  oout,             \* Optimizer harness: what the last call returned
  oprev,            \* Optimizer harness: what the call before it returned
  opc               \* Optimizer harness: the function called last, "ready" before any

ovars == <<oin, ocolors, oout, oprev, opc>>

\* lib/history: the object store 'diagrams', the transactions opened on it
\* and not yet run, every caller's position in saveDiagramToHistory, the
\* clock, the totalDiagrams the last getHistoryStats resolved with, and the
\* last step.
VARIABLES
  diagrams, transactions, saves, stats, clock, totalDiagrams, hpc
hvars == <<diagrams, transactions, saves, stats, clock, totalDiagrams, hpc>>

\* lib/config and the configuration dialog: the stored configuration, where
\* it is stored, the call in flight on the server-backed store, the clock,
\* the dialog's allConfigs and isOpen, the arguments onSave was called with,
\* the outcome of the last call, and the number of calls made.
VARIABLES
  storage, backend, request, cnow, allConfigs, isOpen, onSave, outcome, cops
cvars == <<storage, backend, request, cnow, allConfigs, isOpen, onSave, outcome, cops>>

\* lib/history, the calls that change stored diagrams: the updateDiagram
\* call, the deleteDiagram or clearAllHistory call, and the deleteDiagrams
\* call of a run.
VARIABLES
  update, removal, batch
evars == <<update, removal, batch>>

vars == <<nvars, pvars, ovars, hvars, cvars, evars>>

(***************************************************************************)
(* Characters                                                              *)
(***************************************************************************)
DQ == "\""
BS == "\\"
NL == "\n"
TAB == "\t"
CR == "\r"
SP == " "
BT == "BACKTICK"

\* JavaScript white space (\s, String.prototype.trim) within the model's alphabet;
\* the JSON grammar's white space is the same four characters.
IsSpace(c) == c \in {SP, NL, TAB, CR}

Digits == {"0", "1", "2", "3", "4", "5", "6", "7", "8", "9"}

\* /i of the fence regular expression: letters of the tags, folded to lower case.
Lower(c) ==
  CASE c = "J" -> "j"
    [] c = "S" -> "s"
    [] c = "O" -> "o"
    [] c = "N" -> "n"
    [] c = "A" -> "a"
    [] c = "V" -> "v"
    [] c = "C" -> "c"
    [] c = "R" -> "r"
    [] c = "I" -> "i"
    [] c = "P" -> "p"
    [] c = "T" -> "t"
    [] OTHER -> c

(***************************************************************************)
(* Text helpers                                                            *)
(***************************************************************************)
Drop(s, n) == IF n >= Len(s) THEN <<>> ELSE SubSeq(s, n + 1, Len(s))
Take(s, n) == IF n <= 0 THEN <<>> ELSE SubSeq(s, 1, IF n > Len(s) THEN Len(s) ELSE n)

\* s holds, from index i, the characters of lit.
MatchAt(s, i, lit) ==
  /\ i + Len(lit) - 1 <= Len(s)
  /\ \A k \in 1..Len(lit) : s[i + k - 1] = lit[k]

\* The same, letter case ignored (lit in lower case).
MatchAtNoCase(s, i, lit) ==
  /\ i + Len(lit) - 1 <= Len(s)
  /\ \A k \in 1..Len(lit) : Lower(s[i + k - 1]) = lit[k]

\* Index of the first character at or after i that is not white space; Len(s)+1 if none.
RECURSIVE SkipWs(_, _)
SkipWs(s, i) ==
  IF i > Len(s) THEN Len(s) + 1
  ELSE IF IsSpace(s[i]) THEN SkipWs(s, i + 1) ELSE i

\* Index of the last character that is not white space; 0 if none.
RECURSIVE LastNonWs(_, _)
LastNonWs(s, i) ==
  IF i < 1 THEN 0
  ELSE IF IsSpace(s[i]) THEN LastNonWs(s, i - 1) ELSE i

\* String.prototype.trim
Trim(s) ==
  LET a == SkipWs(s, 1)
      b == LastNonWs(s, Len(s))
  IN IF a > b THEN <<>> ELSE SubSeq(s, a, b)

(***************************************************************************)
(* JavaScript values                                                       *)
(***************************************************************************)
Str(s) == [t |-> "string", v |-> s]
Num(s) == [t |-> "number", v |-> s]
Lit(s) == [t |-> s, v |-> <<>>]          \* "true", "false", "null", "undefined"
Arr(s) == [t |-> "array", v |-> s]
Obj(s) == [t |-> "object", v |-> s]      \* v: sequence of <<key text, value>>
NoValue == Lit("undefined")
EmptyArray == Arr(<<>>)

\* Property assignment while parsing an object: a repeated key keeps its first
\* position and takes the last value.
RECURSIVE PutMember(_, _, _)
PutMember(members, k, val) ==
  IF members = <<>> THEN << <<k, val>> >>
  ELSE IF Head(members)[1] = k THEN << <<k, val>> >> \o Tail(members)
  ELSE <<Head(members)>> \o PutMember(Tail(members), k, val)

HasMember(o, k) == o.t = "object" /\ \E i \in 1..Len(o.v) : o.v[i][1] = k
Member(o, k) == LET i == CHOOSE i \in 1..Len(o.v) : o.v[i][1] = k IN o.v[i][2]

(***************************************************************************)
(* JSON.parse: a recursive-descent reading of the JSON grammar.  A result  *)
(* is [ok, val, pos]: pos is the index after the value read.               *)
(***************************************************************************)
Fail == [ok |-> FALSE, val |-> NoValue, pos |-> 0]
Ok(val, pos) == [ok |-> TRUE, val |-> val, pos |-> pos]

\* The character an escape sequence \c stands for; "" when \c is no escape.
Unescape(c) ==
  CASE c = DQ -> DQ
    [] c = BS -> BS
    [] c = "/" -> "/"
    [] c = "n" -> NL
    [] c = "t" -> TAB
    [] c = "r" -> CR
    [] OTHER -> ""

\* The characters of a string literal, i being the index after its opening quote.
RECURSIVE ParseStringBody(_, _, _)
ParseStringBody(s, i, acc) ==
  IF i > Len(s) THEN Fail
  ELSE IF s[i] = DQ THEN Ok(acc, i + 1)
  ELSE IF s[i] = BS THEN
    IF i + 1 > Len(s) \/ Unescape(s[i + 1]) = "" THEN Fail
    ELSE ParseStringBody(s, i + 2, Append(acc, Unescape(s[i + 1])))
  ELSE IF s[i] \in {NL, TAB, CR} THEN Fail
  ELSE ParseStringBody(s, i + 1, Append(acc, s[i]))

RECURSIVE DigitsEnd(_, _)
DigitsEnd(s, i) ==
  IF i <= Len(s) /\ s[i] \in Digits THEN DigitsEnd(s, i + 1) ELSE i

\* An integer literal: -? (0 | [1-9][0-9]*); the alphabet holds no '.', 'e'.
ParseNumber(s, i) ==
  LET j == IF i <= Len(s) /\ s[i] = "-" THEN i + 1 ELSE i
      e == DigitsEnd(s, j)
  IN IF e = j THEN Fail
     ELSE IF s[j] = "0" /\ e > j + 1 THEN Ok(Num(SubSeq(s, i, j)), j + 1)
     ELSE Ok(Num(SubSeq(s, i, e - 1)), e)

RECURSIVE ParseValue(_, _)
RECURSIVE ParseElements(_, _, _)
RECURSIVE ParseMembers(_, _, _)

\* After '[' and at least one value position: value (',' value)* ']'
ParseElements(s, i, acc) ==
  LET r == ParseValue(s, i)
  IN IF ~r.ok THEN Fail
     ELSE LET j == SkipWs(s, r.pos)
          IN IF j > Len(s) THEN Fail
             ELSE IF s[j] = "," THEN ParseElements(s, j + 1, Append(acc, r.val))
             ELSE IF s[j] = "]" THEN Ok(Arr(Append(acc, r.val)), j + 1)
             ELSE Fail

\* After '{' and at least one member position: string ':' value (',' ...)* '}'
ParseMembers(s, i, acc) ==
  LET k == SkipWs(s, i)
  IN IF k > Len(s) \/ s[k] # DQ THEN Fail
     ELSE LET key == ParseStringBody(s, k + 1, <<>>)
          IN IF ~key.ok THEN Fail
             ELSE LET c == SkipWs(s, key.pos)
                  IN IF c > Len(s) \/ s[c] # ":" THEN Fail
                     ELSE LET r == ParseValue(s, c + 1)
                          IN IF ~r.ok THEN Fail
                             ELSE LET j == SkipWs(s, r.pos)
                                      now == PutMember(acc, key.val, r.val)
                                  IN IF j > Len(s) THEN Fail
                                     ELSE IF s[j] = "," THEN ParseMembers(s, j + 1, now)
                                     ELSE IF s[j] = "}" THEN Ok(Obj(now), j + 1)
                                     ELSE Fail

ParseValue(s, i0) ==
  LET i == SkipWs(s, i0)
  IN IF i > Len(s) THEN Fail
     ELSE IF s[i] = DQ THEN
       LET r == ParseStringBody(s, i + 1, <<>>)
       IN IF r.ok THEN Ok(Str(r.val), r.pos) ELSE Fail
     ELSE IF s[i] = "[" THEN
       LET j == SkipWs(s, i + 1)
       IN IF j <= Len(s) /\ s[j] = "]" THEN Ok(EmptyArray, j + 1)
          ELSE ParseElements(s, i + 1, <<>>)
     ELSE IF s[i] = "{" THEN
       LET j == SkipWs(s, i + 1)
       IN IF j <= Len(s) /\ s[j] = "}" THEN Ok(Obj(<<>>), j + 1)
          ELSE ParseMembers(s, i + 1, <<>>)
     ELSE IF s[i] = "-" \/ s[i] \in Digits THEN ParseNumber(s, i)
     ELSE IF MatchAt(s, i, <<"n", "u", "l", "l">>) THEN Ok(Lit("null"), i + 4)
     ELSE IF MatchAt(s, i, <<"t", "r", "u", "e">>) THEN Ok(Lit("true"), i + 4)
     ELSE IF MatchAt(s, i, <<"f", "a", "l", "s", "e">>) THEN Ok(Lit("false"), i + 5)
     ELSE Fail

\* JSON.parse(text): [ok, val]; ok = FALSE stands for the SyntaxError it throws.
JSONparse(s) ==
  LET r == ParseValue(s, 1)
  IN IF r.ok /\ SkipWs(s, r.pos) > Len(s)
     THEN [ok |-> TRUE, val |-> r.val]
     ELSE [ok |-> FALSE, val |-> NoValue]

(***************************************************************************)
(* The Normalizer: postProcessExcalidrawCode and fixUnescapedQuotes        *)
(***************************************************************************)
Fence == <<BT, BT, BT>>

\* Index of the first occurrence of the three backticks in s; 0 if none.
FirstFence(s) ==
  LET at == {i \in 1..Len(s) : MatchAt(s, i, <<BT, BT, BT>>)}
  IN IF at = {} THEN 0 ELSE CHOOSE i \in at : \A j \in at : i <= j

\* Mutant: the leading-fence expression without its ^ anchor.
StripLeadingFence_Unanchored(s) ==
  LET f == FirstFence(s)
  IN IF f = 0 THEN s
     ELSE LET tag == IF MatchAtNoCase(s, f + 3, <<"j", "s", "o", "n">>) THEN 4
                     ELSE IF MatchAtNoCase(s, f + 3, <<"j", "a", "v", "a", "s", "c", "r", "i", "p", "t">>) THEN 10
                     ELSE IF MatchAtNoCase(s, f + 3, <<"j", "s">>) THEN 2
                     ELSE 0
          IN Take(s, f - 1) \o Drop(s, SkipWs(s, f + 3 + tag) - 1)

\* Mutant: the trailing-fence expression without its $ anchor.
StripTrailingFence_Unanchored(s) ==
  LET f == FirstFence(s)
  IN IF f = 0 THEN s
     ELSE Take(s, IF f >= 2 /\ s[f - 1] = NL THEN f - 2 ELSE f - 1) \o Drop(s, SkipWs(s, f + 3) - 1)

\* processed.replace(/^```(?:json|javascript|js)?\s*\n?/i, ''): the greedy \s*
\* takes every white-space character after the tag, so \n? matches nothing more.
StripLeadingFence(s) ==
  IF ~MatchAt(s, 1, Fence) THEN s
  ELSE LET tag == IF MatchAtNoCase(s, 4, <<"j", "s", "o", "n">>) THEN 4
                  ELSE IF MatchAtNoCase(s, 4, <<"j", "a", "v", "a", "s", "c", "r", "i", "p", "t">>) THEN 10
                  ELSE IF MatchAtNoCase(s, 4, <<"j", "s">>) THEN 2
                  ELSE 0
       IN Drop(s, SkipWs(s, 4 + tag) - 1)

\* processed.replace(/\n?```\s*$/, ''): the three backticks must be the last
\* characters before the trailing white space; one newline before them goes too.
StripTrailingFence(s) ==
  LET e == LastNonWs(s, Len(s))
  IN IF e >= 3 /\ MatchAt(s, e - 2, Fence)
     THEN IF e >= 4 /\ s[e - 3] = NL THEN Take(s, e - 4) ELSE Take(s, e - 3)
     ELSE s

\* jsonString.slice(i + 1).match(/^\s*(.)/): the first character after the white
\* space; when only white space follows, the regular expression backtracks and
\* '.' takes the last white-space character that is no line terminator.
NextNonWhitespace(s, i) ==
  LET j == SkipWs(s, i + 1)
      back == {k \in (i + 1)..Len(s) : s[k] \notin {NL, CR}}
  IN IF j <= Len(s) THEN [matched |-> TRUE, ch |-> s[j]]
     ELSE IF back # {} THEN [matched |-> TRUE, ch |-> s[CHOOSE k \in back : \A m \in back : m <= k]]
     ELSE [matched |-> FALSE, ch |-> ""]

\* const nextChar = nextNonWhitespace ? nextNonWhitespace[1] : ''
NextChar(s, i) ==
  LET m == NextNonWhitespace(s, i) IN IF m.matched THEN m.ch ELSE ""

\* Mutant: the look-ahead reads the very next character, white space included.
IsClosingQuote_NoSkip(s, i) ==
  (IF i + 1 <= Len(s) THEN s[i + 1] ELSE "") \in {":", ",", "}", "]", ""}

\* The quote at index i of a string being scanned closes the string.
IsClosingQuote(s, i) == NextChar(s, i) \in {":", ",", "}", "]", ""}

\* What the scan emits for a quote met inside a string that is not a closing quote.
EscapedQuote == <<BS, DQ>>

\* Mutant: a quote is looked at as a quote even when escape-pending.
RECURSIVE FixScan_EscapedQuoteScanned(_, _, _, _, _)
FixScan_EscapedQuoteScanned(s, i, result, inString, escapeNext) ==
  IF i > Len(s) THEN result
  ELSE IF escapeNext /\ s[i] # DQ
  THEN FixScan_EscapedQuoteScanned(s, i + 1, Append(result, s[i]), inString, FALSE)
  ELSE IF s[i] = BS THEN FixScan_EscapedQuoteScanned(s, i + 1, Append(result, s[i]), inString, TRUE)
  ELSE IF s[i] = DQ THEN
    IF ~inString THEN FixScan_EscapedQuoteScanned(s, i + 1, Append(result, s[i]), TRUE, FALSE)
    ELSE IF IsClosingQuote(s, i)
    THEN FixScan_EscapedQuoteScanned(s, i + 1, Append(result, s[i]), FALSE, FALSE)
    ELSE FixScan_EscapedQuoteScanned(s, i + 1, result \o EscapedQuote, TRUE, FALSE)
  ELSE FixScan_EscapedQuoteScanned(s, i + 1, Append(result, s[i]), inString, FALSE)

\* The loop of fixUnescapedQuotes from index i on.
RECURSIVE FixScan(_, _, _, _, _)
FixScan(s, i, result, inString, escapeNext) ==
  IF i > Len(s) THEN result
  ELSE IF escapeNext THEN FixScan(s, i + 1, Append(result, s[i]), inString, FALSE)
  ELSE IF s[i] = BS THEN FixScan(s, i + 1, Append(result, s[i]), inString, TRUE)
  ELSE IF s[i] = DQ THEN
    IF ~inString THEN FixScan(s, i + 1, Append(result, s[i]), TRUE, FALSE)
    ELSE IF IsClosingQuote(s, i) THEN FixScan(s, i + 1, Append(result, s[i]), FALSE, FALSE)
    ELSE FixScan(s, i + 1, result \o EscapedQuote, TRUE, FALSE)
  ELSE FixScan(s, i + 1, Append(result, s[i]), inString, FALSE)

fixUnescapedQuotes(jsonString) == FixScan(jsonString, 1, <<>>, FALSE, FALSE)

\* A call's outcome: the value returned, or an exception that escaped it.
Returned(val) == [raised |-> FALSE, value |-> val]
Thrown == [raised |-> TRUE, value |-> NoValue]

\* !code
Falsy(code) ==
  \/ code.t \in {"undefined", "null", "false"}
  \/ code.t = "string" /\ code.v = <<>>
  \/ code.t = "number" /\ code.v = <<"0">>

\* Mutant: the guard without its typeof test.
IsNotText_FalsyOnly(code) == Falsy(code)

\* if (!code || typeof code !== 'string') return code
IsNotText(code) == Falsy(code) \/ code.t # "string"

\* try { JSON.parse(processed); return processed } catch (e) { ... }
ParsesAsIs(processed) == JSONparse(processed).ok

\* The text after step 1 (trim, the two fence replacements, trim).
StripFences(text) == Trim(StripTrailingFence(StripLeadingFence(Trim(text))))

postProcessExcalidrawCode(code) ==
  IF IsNotText(code) THEN Returned(code)
  ELSE IF code.t # "string" THEN Thrown      \* code.trim is not a function
  ELSE LET processed == StripFences(code.v)
       IN IF ParsesAsIs(processed) THEN Returned(Str(processed))
          ELSE Returned(Str(fixUnescapedQuotes(processed)))

(***************************************************************************)
(* Normalizer harness: one call of postProcessExcalidrawCode on an         *)
(* argument drawn from the families below.                                 *)
(***************************************************************************)
MaxCore == 3       \* tokens in a free-form core
MaxBody == 3       \* characters in the string value of a quoted template

RECURSIVE SeqsUpTo(_, _)
SeqsUpTo(pieces, n) ==
  IF n = 0 THEN {<<>>}
  ELSE LET shorter == SeqsUpTo(pieces, n - 1)
       IN shorter \cup {s \o p : s \in shorter, p \in pieces}

CoreTokens ==
  { <<"[">>, <<"]">>, <<DQ>>, <<BS>>, <<"a">>, <<",">>, <<SP>>, <<"1">>, <<NL>>, Fence }

\* Spec scenario 1: [{"id":"1","type":"text","x":0,"y":0,"text":"hi"}]
ScenarioDoc ==
  <<"[", "{", DQ, "i", "d", DQ, ":", DQ, "1", DQ, ",",
    DQ, "t", "y", "p", "e", DQ, ":", DQ, "t", "e", "x", "t", DQ, ",",
    DQ, "x", DQ, ":", "0", ",", DQ, "y", DQ, ":", "0", ",",
    DQ, "t", "e", "x", "t", DQ, ":", DQ, "h", "i", DQ, "}", "]">>

SampleDocs ==
  { ScenarioDoc,
    <<"{", DQ, "a", DQ, ":", SP, DQ, BT, BT, BT, DQ, "}">>,
    <<"[", DQ, BT, BT, BT, DQ, "]">>,
    <<"[", DQ, "a", NL, BT, BT, BT, DQ, "]">>,
    <<"{", DQ, "a", DQ, ":", "[", "1", ",", "{", DQ, "b", DQ, ":", DQ, "x", BS, DQ, "y", DQ, "}", "]", "}">>,
    <<"t", "r", "u", "e">>,
    <<"n", "u", "l", "l">>,
    <<"-", "1", "0">>,
    <<"[", "{", DQ, "a", DQ, ":", DQ, "x">>,
    <<"[", "1", "]", SP, "a", SP, "[", "2", "]">> }

NormCores == SampleDocs \cup SeqsUpTo(CoreTokens, MaxCore)

NormPrefixes ==
  { <<>>, <<SP, NL>>,
    Fence \o <<"j", "s", "o", "n", NL>>,
    Fence \o <<"J", "S", NL>>,
    Fence \o <<"j", "a", "v", "a", "s", "c", "r", "i", "p", "t", SP, NL>>,
    Fence \o <<NL>> }

NormSuffixes == { <<>>, <<NL>>, <<NL>> \o Fence, Fence \o <<NL>> }

FencePrefixes == {p \in NormPrefixes : MatchAt(p, 1, Fence)}
FenceSuffixes == {p \in NormSuffixes : \E i \in 1..Len(p) : MatchAt(p, i, Fence)}

\* Quoted templates: a document whose one string value has the body as its text.
BodyChars == {"h", DQ, SP, ",", BS}
TemplateNames == {"object", "array", "top"}
Template(name, body) ==
  CASE name = "object" -> <<"{", DQ, "a", DQ, ":", SP, DQ>> \o body \o <<DQ, "}">>
    [] name = "array" -> <<"[", DQ>> \o body \o <<DQ, SP, "]">>
    [] OTHER -> <<DQ>> \o body \o <<DQ>>

\* Arguments that are no text.
NonTexts ==
  { Lit("undefined"), Lit("null"), Lit("false"), Lit("true"),
    Num(<<"0">>), Num(<<"5">>), Obj(<<>>), EmptyArray, Str(<<>>) }

Wrapped(pre, core, suf) ==
  [family |-> "wrapped", pre |-> pre, core |-> core, suf |-> suf, template |-> "", body |-> <<>>]
Quoted(name, body) ==
  [family |-> "quoted", pre |-> <<>>, core |-> <<>>, suf |-> <<>>, template |-> name, body |-> body]
NonText(val) ==
  [family |-> "nontext", pre |-> <<>>, core |-> <<>>, suf |-> <<>>, template |-> val.t, body |-> val.v]

NormSources ==
  {Wrapped(pre, core, suf) : pre \in NormPrefixes, core \in NormCores, suf \in NormSuffixes}
    \cup {Quoted(name, body) : name \in TemplateNames, body \in SeqsUpTo({<<c>> : c \in BodyChars}, MaxBody)}
    \cup {NonText(val) : val \in NonTexts}

ArgumentOf(src) ==
  CASE src.family = "wrapped" -> Str(src.pre \o src.core \o src.suf)
    [] src.family = "quoted" -> Str(Template(src.template, src.body))
    [] OTHER -> [t |-> src.template, v |-> src.body]

NormInit ==
  /\ nsrc \in NormSources
  /\ ncode = ArgumentOf(nsrc)
  /\ nout = Returned(NoValue)
  /\ npc = "ready"

\* The call.
Normalize ==
  /\ npc = "ready"
  /\ nout' = postProcessExcalidrawCode(ncode)
  /\ npc' = "done"
  /\ UNCHANGED <<ncode, nsrc, pvars, ovars, hvars, cvars, evars>>

NormNext == Normalize

(***************************************************************************)
(* JSON.stringify(value, null, 2)                                          *)
(***************************************************************************)
Spaces(n) == [i \in 1..n |-> SP]

LitText(name) ==
  CASE name = "true" -> <<"t", "r", "u", "e">>
    [] name = "false" -> <<"f", "a", "l", "s", "e">>
    [] OTHER -> <<"n", "u", "l", "l">>

RECURSIVE QuoteChars(_)
QuoteChars(s) ==
  IF s = <<>> THEN <<>>
  ELSE (CASE Head(s) = DQ -> <<BS, DQ>>
          [] Head(s) = BS -> <<BS, BS>>
          [] Head(s) = NL -> <<BS, "n">>
          [] Head(s) = TAB -> <<BS, "t">>
          [] Head(s) = CR -> <<BS, "r">>
          [] OTHER -> <<Head(s)>>) \o QuoteChars(Tail(s))

Quote(s) == <<DQ>> \o QuoteChars(s) \o <<DQ>>

RECURSIVE Stringify(_, _)
RECURSIVE StringifyItems(_, _, _)
\* The members of an array (pairs = FALSE) or an object, one per line.
StringifyItems(items, indent, pairs) ==
  LET one == IF pairs
             THEN Quote(Head(items)[1]) \o <<":", SP>> \o Stringify(Head(items)[2], indent)
             ELSE Stringify(Head(items), indent)
  IN Spaces(indent) \o one \o
       (IF Len(items) = 1 THEN <<>> ELSE <<",", NL>> \o StringifyItems(Tail(items), indent, pairs))

Stringify(val, indent) ==
  CASE val.t = "string" -> Quote(val.v)
    [] val.t = "number" -> val.v
    [] val.t = "array" ->
         IF val.v = <<>> THEN <<"[", "]">>
         ELSE <<"[", NL>> \o StringifyItems(val.v, indent + 2, FALSE) \o <<NL>> \o Spaces(indent) \o <<"]">>
    [] val.t = "object" ->
         IF val.v = <<>> THEN <<"{", "}">>
         ELSE <<"{", NL>> \o StringifyItems(val.v, indent + 2, TRUE) \o <<NL>> \o Spaces(indent) \o <<"}">>
    [] OTHER -> LitText(val.t)

JSONstringify(val) == Stringify(val, 0)

(***************************************************************************)
(* Messages                                                                *)
(***************************************************************************)
NoError == [kind |-> "none", msg |-> ""]
NetworkError == [kind |-> "network", msg |-> ""]         \* '网络连接失败，请检查网络连接'
StreamParseError(m) == [kind |-> "stream", msg |-> m]    \* '数据流解析错误：' + e.message
MessageError(m) == [kind |-> "message", msg |-> m]       \* error.message
NoArrayError == [kind |-> "no-array", msg |-> ""]        \* '代码中未找到有效的 JSON 数组'
SyntaxErrorShown == [kind |-> "syntax", msg |-> ""]      \* 'JSON 语法错误：' + error.message
ParseFailedShown == [kind |-> "failed", msg |-> ""]      \* '解析失败：' + error.message

\* e.message.includes('Unexpected')
IncludesUnexpected(m) ==
  m \in {"Unexpected token", "Unexpected end of JSON input", "Unexpected upstream failure"}


(***************************************************************************)
(* Array Extraction: tryParseAndApply                                      *)
(***************************************************************************)
IndicesOf(s, c) == {i \in 1..Len(s) : s[i] = c}
MinOf(S) == CHOOSE i \in S : \A j \in S : i <= j
MaxOf(S) == CHOOSE i \in S : \A j \in S : j <= i

\* Mutant: a lazy quantifier, /\[[\s\S]*?\]/: from the first '[' to the first ']' after it.
ArrayMatch_Lazy(text) ==
  LET opens == IndicesOf(text, "[")
      closes == IF opens = {} THEN {} ELSE {j \in IndicesOf(text, "]") : j > MinOf(opens)}
  IN IF closes = {} THEN [found |-> FALSE, text |-> <<>>]
     ELSE [found |-> TRUE, text |-> SubSeq(text, MinOf(opens), MinOf(closes))]

\* cleanedCode.match(/\[[\s\S]*\]/): from the first '[' to the last ']' after it.
ArrayMatch(text) ==
  LET opens == IndicesOf(text, "[")
      closes == IF opens = {} THEN {} ELSE {j \in IndicesOf(text, "]") : j > MinOf(opens)}
  IN IF closes = {} THEN [found |-> FALSE, text |-> <<>>]
     ELSE [found |-> TRUE, text |-> SubSeq(text, MinOf(opens), MaxOf(closes))]

\* The record of one tryParseAndApply call.
Call(by, code, ok, before, after) ==
  [by |-> by, code |-> code, ok |-> ok, before |-> before, after |-> after]

Logged(ui, before, by, code, ok) ==
  [ui EXCEPT !.calls = Append(@, Call(by, code, ok, before.elements, ui.elements))]

\* Mutant: a failed extraction also empties the Diagram.
OnExtractionFailure_Clears(ui, err) == [ui EXCEPT !.jsonError = err, !.elements = EmptyArray]

\* setJsonError(...) of the no-match return and of the catch block.
OnExtractionFailure(ui, err) == [ui EXCEPT !.jsonError = err]

\* setElements(parsed); setJsonError(null)
OnExtractionSuccess(ui, parsed) == [ui EXCEPT !.elements = parsed, !.jsonError = NoError]

tryParseAndApply(ui, code, by) ==
  LET cleared == [ui EXCEPT !.jsonError = NoError]
  IN IF code.t # "string"
     THEN Logged(OnExtractionFailure(cleared, ParseFailedShown), ui, by, code, FALSE)   \* code.trim throws
     ELSE LET arrayMatch == ArrayMatch(Trim(code.v))
          IN IF ~arrayMatch.found
             THEN Logged(OnExtractionFailure(cleared, NoArrayError), ui, by, code, FALSE)
             ELSE LET parsed == JSONparse(arrayMatch.text)
                  IN IF ~parsed.ok
                     THEN Logged(OnExtractionFailure(cleared, SyntaxErrorShown), ui, by, code, FALSE)
                     ELSE IF parsed.val.t = "array"
                     THEN Logged(OnExtractionSuccess(cleared, parsed.val), ui, by, code, TRUE)
                     ELSE Logged(cleared, ui, by, code, FALSE)

\* optimizeExcalidrawCode (lib/optimizeArrows): the text unchanged, or the
\* extracted array written out again.
optimizeExcalidrawCode(code) ==
  {code} \cup
    (IF code.t = "string" /\ ArrayMatch(Trim(code.v)).found /\ JSONparse(ArrayMatch(Trim(code.v)).text).ok
     THEN {Str(JSONstringify(JSONparse(ArrayMatch(Trim(code.v)).text).val))}
     ELSE {})

(***************************************************************************)
(* The page: bounds and the values its inputs are drawn from               *)
(***************************************************************************)
MaxChunk == 2          \* characters of doc in one content payload
MaxLinesPerRead == 1   \* complete lines in one reader.read() value
MaxUserOps == 2        \* user actions in a run
MaxSends == 1          \* generations in a run

Docs ==
  { <<BT, BT, BT, "[", "1", "]", BT, BT, BT>>,
    <<"[", DQ, SP, DQ, "b", DQ, "]">>,
    <<"[", "1", ",", "]">>,
    <<"n", "o">> }

EditTexts == { <<"[", "1", "]", "x", "[", "2", "]">> }

FileTexts ==
  { <<"{", DQ, "e", "l", "e", "m", "e", "n", "t", "s", DQ, ":", "[", "2", "]", "}">>,
    <<"[", DQ, "x", DQ, "]">>,
    <<"{", DQ, "a", DQ, ":", "1", "}">> }

\* Codes of diagrams stored before the page was opened.
StoredCodes == { Str(<<"[", "4", "]">>) }

ErrorPayloads == {"rate limit exceeded", "Unexpected upstream failure"}
MalformedMessages == {"Unexpected end of JSON input", "Unterminated string in JSON"}
ServerMessages == {"invalid api key", "Failed to fetch"}

\* One line of the response after the split on '\n'.
ContentLine(c) == [kind |-> "content", text |-> c, msg |-> ""]
ErrorLine(m) == [kind |-> "error", text |-> <<>>, msg |-> m]
MalformedLine(m) == [kind |-> "malformed", text |-> <<>>, msg |-> m]
\* A blank line, data: [DONE], a line without the 'data: ' prefix, or data with neither field.
SkippedLine == [kind |-> "skipped", text |-> <<>>, msg |-> ""]

\* What buffer holds between two reads: nothing, the first characters of a
\* line whose rest is still to come, or all the characters of a content line
\* whose newline is still to come.
NoLine == [kind |-> "none", text |-> <<>>, msg |-> ""]
PartLine == [kind |-> "part", text |-> <<>>, msg |-> ""]

\* The lines the provider may send next when `from` characters of d went out.
LinesAt(d, from) ==
  {ContentLine(SubSeq(d, from + 1, from + n)) : n \in {k \in 1..MaxChunk : from + k <= Len(d)}}
    \cup {ErrorLine(m) : m \in ErrorPayloads}
    \cup {MalformedLine(m) : m \in MalformedMessages}
    \cup {SkippedLine}

RECURSIVE LineSeqs(_, _, _)
LineSeqs(d, from, n) ==
  IF n = 0 THEN {<<>>}
  ELSE {<<>>} \cup
       UNION {{<<l>> \o rest : rest \in LineSeqs(d, from + Len(l.text), n - 1)} : l \in LinesAt(d, from)}

RECURSIVE SumLen(_)
SumLen(lines) == IF lines = <<>> THEN 0 ELSE Len(Head(lines).text) + SumLen(Tail(lines))

\* What a read may leave in buffer when `from` characters of d went out in
\* complete lines.
RestsAt(d, from) ==
  {NoLine, PartLine}
    \cup {ContentLine(SubSeq(d, from + 1, from + n)) : n \in {k \in 1..MaxChunk : from + k <= Len(d)}}

(***************************************************************************)
(* handleSendMessage: the stream loop                                      *)
(***************************************************************************)
\* Mutant: the cleaned text is written back into the buffer.
OnContent_KeepsProcessed(g, content) ==
  LET processedCode == postProcessExcalidrawCode(Str(g.acc \o content)).value
  IN [g EXCEPT !.acc = processedCode.v, !.ui.generatedCode = processedCode]

\* Mutant: the Diagram is applied after every content payload.
OnContent_AppliesEachChunk(g, content) ==
  LET acc == g.acc \o content
      processedCode == postProcessExcalidrawCode(Str(acc)).value
  IN [g EXCEPT !.acc = acc,
               !.ui = tryParseAndApply([g.ui EXCEPT !.generatedCode = processedCode], processedCode, "generate")]

\* accumulatedCode += data.content; setGeneratedCode(postProcessExcalidrawCode(accumulatedCode))
OnContent(g, content) ==
  LET acc == g.acc \o content
      processedCode == postProcessExcalidrawCode(Str(acc)).value
  IN [g EXCEPT !.acc = acc, !.ui.generatedCode = processedCode]

\* catch (e) { if (e.message && !e.message.includes('Unexpected')) setApiError(...) }
OnLineException(g, m) ==
  IF m # "" /\ ~IncludesUnexpected(m)
  THEN [g EXCEPT !.ui.apiError = StreamParseError(m)]
  ELSE g

\* The body of `for (const line of lines)` for one line.
ProcessLine(g, line) ==
  CASE line.kind = "content" -> IF line.text # <<>> THEN OnContent(g, line.text) ELSE g
    [] line.kind = "error" ->
         OnLineException([g EXCEPT !.uerr = TRUE], line.msg)
    [] line.kind = "malformed" -> OnLineException(g, line.msg)
    [] OTHER -> g

RECURSIVE ProcessLines(_, _)
ProcessLines(g, lines) ==
  IF lines = <<>> THEN g ELSE ProcessLines(ProcessLine(g, Head(lines)), Tail(lines))

\* The page state the handlers read and write, as one record.
UI == [generatedCode |-> generatedCode, elements |-> elements, apiError |-> apiError,
       jsonError |-> jsonError, calls |-> <<>>]

SetUI(ui) ==
  /\ generatedCode' = ui.generatedCode
  /\ elements' = ui.elements
  /\ apiError' = ui.apiError
  /\ jsonError' = ui.jsonError
  /\ calls' = ui.calls

\* finally { setIsGenerating(false) } and the end of the call: its locals are gone.
\* Mutant: the call ends without setIsGenerating(false).
Finish_KeepsGenerating ==
  /\ isGenerating' = isGenerating
  /\ pc' = "idle"
  /\ accumulatedCode' = <<>>
  /\ buffer' = NoLine
  /\ genAPI' = FALSE
  /\ optimizedCode' = Str(<<>>)
  /\ doc' = <<>>
  /\ sent' = 0
  /\ upstreamError' = FALSE

Finish ==
  /\ isGenerating' = FALSE
  /\ pc' = "idle"
  /\ accumulatedCode' = <<>>
  /\ buffer' = NoLine
  /\ genAPI' = FALSE
  /\ optimizedCode' = Str(<<>>)
  /\ doc' = <<>>
  /\ sent' = 0
  /\ upstreamError' = FALSE

\* catch (error) of handleSendMessage.
CaughtError(name, m) ==
  IF m = "Failed to fetch" \/ name = "TypeError" THEN NetworkError ELSE MessageError(m)

(***************************************************************************)
(* Init                                                                    *)
(***************************************************************************)
PageInit ==
  /\ config = "none"
  /\ excalidrawAPI = FALSE
  /\ isConfigModalOpen = FALSE
  /\ generatedCode = Str(<<>>)
  /\ elements = EmptyArray
  /\ isGenerating = FALSE
  /\ isApplyingCode = FALSE
  /\ isOptimizingCode = FALSE
  /\ apiError = NoError
  /\ jsonError = NoError
  /\ pc = "idle"
  /\ accumulatedCode = <<>>
  /\ buffer = NoLine
  /\ genAPI = FALSE
  /\ optimizedCode = Str(<<>>)
  /\ applyCode = Str(<<>>)
  /\ optimizeCode = Str(<<>>)
  /\ history = {}
  /\ doc = <<>>
  /\ sent = 0
  /\ upstreamError = FALSE
  /\ ops = 0
  /\ sends = 0
  /\ step = "init"
  /\ calls = <<>>

(***************************************************************************)
(* Actions of the page                                                     *)
(***************************************************************************)
\* Chat and CodeEditor (not under src/) receive isGenerating, isApplyingCode and
\* isOptimizingCode and keep their buttons inactive while one of them is set.
ChatSendEnabled == ~isGenerating
EditorButtonsEnabled == ~isGenerating /\ ~isApplyingCode /\ ~isOptimizingCode

UserOp(name) ==
  /\ ops < MaxUserOps
  /\ ops' = ops + 1
  /\ step' = name
  /\ UNCHANGED <<sends, nvars, ovars, hvars, cvars, evars>>

SystemStep(name) ==
  /\ step' = name
  /\ UNCHANGED <<ops, sends, nvars, ovars, hvars, cvars, evars>>

flagvars == <<config, excalidrawAPI, isConfigModalOpen>>
clickvars == <<isApplyingCode, isOptimizingCode, applyCode, optimizeCode>>

\* The mount effect: setConfig(getConfig()), before any handler runs.
LoadConfig(c) ==
  /\ step = "init"
  /\ config' = c
  /\ SystemStep("LoadConfig")
  /\ UNCHANGED <<excalidrawAPI, isConfigModalOpen, uivars, isGenerating, genvars, clickvars, history>>

\* handleSaveConfig: setConfig(newConfig)
SetConfig(c) ==
  /\ c # config
  /\ config' = c
  /\ UserOp("SetConfig")
  /\ UNCHANGED <<excalidrawAPI, isConfigModalOpen, uivars, isGenerating, genvars, clickvars, history>>

\* onAPIReady={setExcalidrawAPI}
OnAPIReady ==
  /\ ~excalidrawAPI
  /\ excalidrawAPI' = TRUE
  /\ SystemStep("OnAPIReady")
  /\ UNCHANGED <<config, isConfigModalOpen, uivars, isGenerating, genvars, clickvars, history>>

\* handleSendMessage, configuration not valid: alert, open the dialog, return.
SendRefused ==
  /\ ChatSendEnabled
  /\ config # "valid"
  /\ isConfigModalOpen' = TRUE
  /\ UserOp("SendRefused")
  /\ UNCHANGED <<config, excalidrawAPI, uivars, isGenerating, genvars, clickvars, history>>

\* handleSendMessage up to `await fetch(...)`.
Send ==
  /\ ChatSendEnabled
  /\ config = "valid"
  /\ isGenerating' = TRUE
  /\ apiError' = NoError
  /\ jsonError' = NoError
  /\ pc' = "fetching"
  /\ genAPI' = excalidrawAPI
  /\ doc' = <<>>
  /\ sent' = 0
  /\ upstreamError' = FALSE
  /\ calls' = <<>>
  /\ ops < MaxUserOps
  /\ sends < MaxSends
  /\ ops' = ops + 1
  /\ sends' = sends + 1
  /\ step' = "Send"
  /\ UNCHANGED <<nvars, ovars, hvars, cvars, evars>>
  /\ UNCHANGED <<flagvars, generatedCode, elements, accumulatedCode, buffer, optimizedCode, clickvars, history>>

\* fetch rejects: the outer catch and finally.
FetchRejects ==
  /\ pc = "fetching"
  /\ apiError' = CaughtError("TypeError", "Failed to fetch")
  /\ Finish
  /\ calls' = <<>>
  /\ SystemStep("FetchRejects")
  /\ UNCHANGED <<flagvars, generatedCode, elements, jsonError, clickvars, history>>

\* !response.ok: up to `await response.json()`.
FetchNotOk ==
  /\ pc = "fetching"
  /\ pc' = "errorBody"
  /\ calls' = <<>>
  /\ SystemStep("FetchNotOk")
  /\ UNCHANGED <<flagvars, generatedCode, elements, apiError, jsonError, isGenerating, accumulatedCode,
                 buffer, genAPI, optimizedCode, doc, sent, upstreamError, clickvars, history>>

\* The error body's text or the status text: throw new Error(errorMessage).
ErrorBodyRead(m) ==
  /\ pc = "errorBody"
  /\ apiError' = CaughtError("Error", m)
  /\ Finish
  /\ calls' = <<>>
  /\ SystemStep("ErrorBodyRead")
  /\ UNCHANGED <<flagvars, generatedCode, elements, jsonError, clickvars, history>>

\* response.ok: reader, decoder, accumulatedCode = '', buffer = ''.
FetchOk(d) ==
  /\ pc = "fetching"
  /\ pc' = "streaming"
  /\ accumulatedCode' = <<>>
  /\ buffer' = NoLine
  /\ doc' = d
  /\ calls' = <<>>
  /\ SystemStep("FetchOk")
  /\ UNCHANGED <<flagvars, generatedCode, elements, apiError, jsonError, isGenerating, genAPI,
                 optimizedCode, sent, upstreamError, clickvars, history>>

\* One turn of the while loop with done = false: the value completes `lines`,
\* the first of them being the line buffer held, and leaves `rest` in buffer.
ReadChunk(lines, rest) ==
  /\ pc = "streaming"
  /\ lines = <<>> => rest # NoLine
  /\ buffer.kind = "content" => lines # <<>> /\ Head(lines) = buffer
  /\ LET g == ProcessLines([ui |-> UI, acc |-> accumulatedCode, uerr |-> upstreamError], lines)
     IN /\ SetUI(g.ui)
        /\ accumulatedCode' = g.acc
        /\ upstreamError' = g.uerr
  /\ buffer' = rest
  /\ sent' = sent + SumLen(lines)
  /\ SystemStep("ReadChunk")
  /\ UNCHANGED <<flagvars, isGenerating, pc, genAPI, optimizedCode, doc, clickvars, history>>

\* reader.read() rejects (the connection broke): the outer catch and finally.
ReadRejects(name) ==
  /\ pc = "streaming"
  /\ apiError' = CaughtError(name, "network error")
  /\ Finish
  /\ calls' = <<>>
  /\ SystemStep("ReadRejects")
  /\ UNCHANGED <<flagvars, generatedCode, elements, jsonError, clickvars, history>>

\* JSON.parse(optimizedCode.match(/\[[\s\S]*\]/)?.[0] || '[]') does not throw.
HistoryParseOk(code) ==
  LET m == ArrayMatch(code.v)
  IN JSONparse(IF m.found THEN m.text ELSE <<"[", "]">>).ok

\* done = true: from the break to the first await of the save block.
StreamEnd ==
  /\ pc = "streaming"
  /\ LET processedCode == postProcessExcalidrawCode(Str(accumulatedCode)).value
         ui1 == tryParseAndApply(UI, processedCode, "generate")
     IN \E optimized \in optimizeExcalidrawCode(processedCode) :
          /\ SetUI(tryParseAndApply([ui1 EXCEPT !.generatedCode = optimized], optimized, "generate"))
          /\ IF ~HistoryParseOk(optimized) THEN Finish
             ELSE /\ pc' = IF genAPI THEN "thumbnail" ELSE "saving"
                  /\ optimizedCode' = optimized
                  /\ UNCHANGED <<isGenerating, accumulatedCode, buffer, genAPI, doc, sent, upstreamError>>
  /\ SystemStep("StreamEnd")
  /\ UNCHANGED <<flagvars, clickvars, history>>

\* await generateThumbnail(excalidrawAPI, 200) resolves: saveDiagramToHistory is called.
ThumbnailDone ==
  /\ pc = "thumbnail"
  /\ pc' = "saving"
  /\ calls' = <<>>
  /\ SystemStep("ThumbnailDone")
  /\ UNCHANGED <<flagvars, generatedCode, elements, apiError, jsonError, isGenerating, accumulatedCode,
                 buffer, genAPI, optimizedCode, doc, sent, upstreamError, clickvars, history>>

\* generateThumbnail rejects: the inner catch, then finally.
ThumbnailFails ==
  /\ pc = "thumbnail"
  /\ Finish
  /\ calls' = <<>>
  /\ SystemStep("ThumbnailFails")
  /\ UNCHANGED <<flagvars, generatedCode, elements, apiError, jsonError, clickvars, history>>

\* await saveDiagramToHistory(...) resolves.
SaveResolves ==
  /\ pc = "saving"
  /\ history' = history \cup {optimizedCode}
  /\ Finish
  /\ calls' = <<>>
  /\ SystemStep("SaveResolves")
  /\ UNCHANGED <<flagvars, generatedCode, elements, apiError, jsonError, clickvars>>

\* saveDiagramToHistory rejects: the inner catch, then finally.
SaveRejects ==
  /\ pc = "saving"
  /\ Finish
  /\ calls' = <<>>
  /\ SystemStep("SaveRejects")
  /\ UNCHANGED <<flagvars, generatedCode, elements, apiError, jsonError, clickvars, history>>

\* CodeEditor onChange={setGeneratedCode}
EditCode(text) ==
  /\ generatedCode # Str(text)
  /\ generatedCode' = Str(text)
  /\ calls' = <<>>
  /\ UserOp("EditCode")
  /\ UNCHANGED <<flagvars, elements, apiError, jsonError, isGenerating, genvars, clickvars, history>>

\* handleClearCode
ClearCode ==
  /\ generatedCode # Str(<<>>)
  /\ generatedCode' = Str(<<>>)
  /\ calls' = <<>>
  /\ UserOp("ClearCode")
  /\ UNCHANGED <<flagvars, elements, apiError, jsonError, isGenerating, genvars, clickvars, history>>

\* onClearJsonError={() => setJsonError(null)}
ClearJsonError ==
  /\ jsonError # NoError
  /\ jsonError' = NoError
  /\ calls' = <<>>
  /\ UserOp("ClearJsonError")
  /\ UNCHANGED <<flagvars, generatedCode, elements, apiError, isGenerating, genvars, clickvars, history>>

\* handleApplyCode up to its await.
ApplyClick ==
  /\ EditorButtonsEnabled
  /\ isApplyingCode' = TRUE
  /\ applyCode' = generatedCode
  /\ calls' = <<>>
  /\ UserOp("ApplyClick")
  /\ UNCHANGED <<flagvars, generatedCode, elements, apiError, jsonError, isGenerating, genvars,
                 isOptimizingCode, optimizeCode, history>>

\* handleApplyCode after the 300 ms.
ApplyFire ==
  /\ isApplyingCode
  /\ SetUI(tryParseAndApply(UI, applyCode, "apply"))
  /\ isApplyingCode' = FALSE
  /\ SystemStep("ApplyFire")
  /\ UNCHANGED <<flagvars, isGenerating, genvars, isOptimizingCode, applyCode, optimizeCode, history>>

\* handleOptimizeCode up to its await.
OptimizeClick ==
  /\ EditorButtonsEnabled
  /\ isOptimizingCode' = TRUE
  /\ optimizeCode' = generatedCode
  /\ calls' = <<>>
  /\ UserOp("OptimizeClick")
  /\ UNCHANGED <<flagvars, generatedCode, elements, apiError, jsonError, isGenerating, genvars,
                 isApplyingCode, applyCode, history>>

\* handleOptimizeCode after the 500 ms.
OptimizeFire ==
  /\ isOptimizingCode
  /\ \E optimized \in optimizeExcalidrawCode(optimizeCode) :
       SetUI(tryParseAndApply([UI EXCEPT !.generatedCode = optimized], optimized, "optimize"))
  /\ isOptimizingCode' = FALSE
  /\ SystemStep("OptimizeFire")
  /\ UNCHANGED <<flagvars, isGenerating, genvars, isApplyingCode, applyCode, optimizeCode, history>>

\* data.elements || data of the file handlers; ok is FALSE where they alert.
FileElements(text) ==
  LET data == JSONparse(text)
  IN IF ~data.ok \/ data.val.t = "null" THEN [ok |-> FALSE, val |-> NoValue]
     ELSE IF HasMember(data.val, <<"e", "l", "e", "m", "e", "n", "t", "s">>)
             /\ ~Falsy(Member(data.val, <<"e", "l", "e", "m", "e", "n", "t", "s">>))
     THEN [ok |-> TRUE, val |-> Member(data.val, <<"e", "l", "e", "m", "e", "n", "t", "s">>)]
     ELSE IF data.val.t = "array" THEN [ok |-> TRUE, val |-> data.val]
     ELSE [ok |-> FALSE, val |-> NoValue]

\* handleCloudFileOpen and the local file input's onchange, after file.text().
FileOpen(text) ==
  /\ LET picked == FileElements(text)
         code == Str(JSONstringify(picked.val))
     IN IF picked.ok
        THEN SetUI(tryParseAndApply([UI EXCEPT !.generatedCode = code], code, "open"))
        ELSE /\ calls' = <<>>
             /\ UNCHANGED <<generatedCode, elements, apiError, jsonError>>
  /\ UserOp("FileOpen")
  /\ UNCHANGED <<flagvars, isGenerating, genvars, clickvars, history>>

\* onLoadDiagram of the history panel.
LoadDiagram(code) ==
  /\ SetUI(tryParseAndApply([UI EXCEPT !.generatedCode = code], code, "load"))
  /\ UserOp("LoadDiagram")
  /\ UNCHANGED <<flagvars, isGenerating, genvars, clickvars, history>>

Next ==
  \/ \E c \in {"none", "invalid", "valid"} : LoadConfig(c)
  \/ \E c \in {"invalid", "valid"} : SetConfig(c)
  \/ OnAPIReady
  \/ SendRefused
  \/ Send
  \/ FetchRejects
  \/ FetchNotOk
  \/ \E m \in ServerMessages : ErrorBodyRead(m)
  \/ \E d \in Docs : FetchOk(d)
  \/ /\ pc = "streaming"
     /\ \E lines \in LineSeqs(doc, sent, MaxLinesPerRead) :
          \E rest \in RestsAt(doc, sent + SumLen(lines)) : ReadChunk(lines, rest)
  \/ \E name \in {"TypeError", "AbortError"} : ReadRejects(name)
  \/ StreamEnd
  \/ ThumbnailDone
  \/ ThumbnailFails
  \/ SaveResolves
  \/ SaveRejects
  \/ \E text \in EditTexts : EditCode(text)
  \/ ClearCode
  \/ ClearJsonError
  \/ ApplyClick
  \/ ApplyFire
  \/ OptimizeClick
  \/ OptimizeFire
  \/ \E text \in FileTexts : FileOpen(text)
  \/ \E code \in StoredCodes \cup history : LoadDiagram(code)

(***************************************************************************)
(* lib/ai-optimizer: elements, auto-fix, overlaps, colors                  *)
(***************************************************************************)
\* A property of an element: <<>> when the element does not have it
\* (undefined), <<v>> when its value is v.
Absent == <<>>
Val(v) == <<v>>
Has(field) == field # Absent

\* element.width || 100: the default also replaces 0.
OrDefault(field, default) == IF Has(field) /\ field[1] # 0 THEN field[1] ELSE default

Max2(a, b) == IF a >= b THEN a ELSE b
Min2(a, b) == IF a <= b THEN a ELSE b

Element(id, type, x, y, width, height, text, opacity) ==
  [id |-> id, type |-> type, x |-> x, y |-> y, width |-> width, height |-> height,
   text |-> text, opacity |-> opacity, strokeColor |-> Absent, backgroundColor |-> Absent]

IsShape(element) == element.type \in {"rectangle", "ellipse", "diamond"}
IsConnector(element) == element.type \in {"arrow", "line"}

Fix(element, issue) == [id |-> element.id, issue |-> issue]

\* Mutant: the minimum-size check looks at the width only.
TooSmall_WidthOnly(element) == Has(element.width) /\ element.width[1] < 50

\* The four checks of autoFixDiagram on one element: the element returned and
\* the fixes pushed, in the order of the checks.
TooSmall(element) ==
  \/ Has(element.width) /\ element.width[1] < 50
  \/ Has(element.height) /\ element.height[1] < 30

ZeroWidthConnector(element) == IsConnector(element) /\ element.width = Val(0)

\* !element.text || element.text.trim() === ''
EmptyText(element) ==
  element.type = "text" /\ (~Has(element.text) \/ Trim(element.text[1]) = <<>>)

BadOpacity(element) ==
  Has(element.opacity) /\ (element.opacity[1] < 0 \/ element.opacity[1] > 100)

\* fixed.text = '文本'
DefaultText == <<"t", "x">>

\* Mutant: the minimum-size rule writes its width after the zero-width rule.
FixOne_SizeRuleLast(element) ==
  LET widened == IF ZeroWidthConnector(element) THEN [element EXCEPT !.width = Val(1)] ELSE element
      sized == IF TooSmall(element)
               THEN [widened EXCEPT !.width = Val(Max2(OrDefault(element.width, 100), 50)),
                                    !.height = Val(Max2(OrDefault(element.height, 50), 30))]
               ELSE widened
      worded == IF EmptyText(element) THEN [sized EXCEPT !.text = Val(DefaultText)] ELSE sized
      clamped == IF BadOpacity(element)
                 THEN [worded EXCEPT !.opacity = Val(Max2(0, Min2(100, element.opacity[1])))]
                 ELSE worded
  IN [element |-> clamped,
      fixes |-> (IF TooSmall(element) THEN <<Fix(element, "size")>> ELSE <<>>)
                \o (IF ZeroWidthConnector(element) THEN <<Fix(element, "width")>> ELSE <<>>)
                \o (IF EmptyText(element) THEN <<Fix(element, "text")>> ELSE <<>>)
                \o (IF BadOpacity(element) THEN <<Fix(element, "opacity")>> ELSE <<>>)]

FixOne(element) ==
  LET sized == IF TooSmall(element)
               THEN [element EXCEPT !.width = Val(Max2(OrDefault(element.width, 100), 50)),
                                    !.height = Val(Max2(OrDefault(element.height, 50), 30))]
               ELSE element
      widened == IF ZeroWidthConnector(element) THEN [sized EXCEPT !.width = Val(1)] ELSE sized
      worded == IF EmptyText(element) THEN [widened EXCEPT !.text = Val(DefaultText)] ELSE widened
      clamped == IF BadOpacity(element)
                 THEN [worded EXCEPT !.opacity = Val(Max2(0, Min2(100, element.opacity[1])))]
                 ELSE worded
  IN [element |-> clamped,
      fixes |-> (IF TooSmall(element) THEN <<Fix(element, "size")>> ELSE <<>>)
                \o (IF ZeroWidthConnector(element) THEN <<Fix(element, "width")>> ELSE <<>>)
                \o (IF EmptyText(element) THEN <<Fix(element, "text")>> ELSE <<>>)
                \o (IF BadOpacity(element) THEN <<Fix(element, "opacity")>> ELSE <<>>)]

RECURSIVE FixesOf(_)
FixesOf(elems) == IF elems = <<>> THEN <<>> ELSE FixOne(Head(elems)).fixes \o FixesOf(Tail(elems))

autoFixDiagram(elems) ==
  [elements |-> [i \in 1..Len(elems) |-> FixOne(elems[i]).element],
   fixes |-> FixesOf(elems),
   hasIssues |-> FixesOf(elems) # <<>>]

\* One entry of shapesWithBounds.
Bounds(el) ==
  [id |-> el.id, x |-> el.x, y |-> el.y,
   width |-> OrDefault(el.width, 100), height |-> OrDefault(el.height, 50)]

NotConnector(el) == ~IsConnector(el)

shapesWithBounds(elems) ==
  LET kept == SelectSeq(elems, NotConnector)
  IN [i \in 1..Len(kept) |-> Bounds(kept[i])]

\* Variant: b's far edges are not looked at.
BoxesOverlap_OneSided(a, b) == a.x + a.width > b.x /\ a.y + a.height > b.y

\* xOverlap && yOverlap
BoxesOverlap(a, b) ==
  /\ a.x < b.x + b.width /\ a.x + a.width > b.x
  /\ a.y < b.y + b.height /\ a.y + a.height > b.y

\* The two nested loops from (i, j) on; positions count from 1.
RECURSIVE OverlapLoop(_, _, _)
OverlapLoop(shapes, i, j) ==
  IF i > Len(shapes) THEN <<>>
  ELSE IF j > Len(shapes) THEN OverlapLoop(shapes, i + 1, i + 2)
  ELSE (IF BoxesOverlap(shapes[i], shapes[j])
        THEN <<[elementA |-> shapes[i].id, elementB |-> shapes[j].id]>>
        ELSE <<>>) \o OverlapLoop(shapes, i, j + 1)

detectOverlaps(elems) == OverlapLoop(shapesWithBounds(elems), 1, 2)

\* COLOR_PALETTES
COLOR_PALETTES ==
  [professional |-> [colors |-> <<"#1e40af", "#059669", "#dc2626", "#7c3aed", "#ea580c">>, background |-> "#ffffff"],
   modern |-> [colors |-> <<"#0ea5e9", "#10b981", "#f59e0b", "#ec4899", "#8b5cf6">>, background |-> "#ffffff"],
   warm |-> [colors |-> <<"#f97316", "#eab308", "#ef4444", "#f472b6", "#fb923c">>, background |-> "#fffbeb"],
   cool |-> [colors |-> <<"#0284c7", "#0891b2", "#06b6d4", "#0d9488", "#14b8a6">>, background |-> "#f0fdfa"],
   pastel |-> [colors |-> <<"#93c5fd", "#86efac", "#fcd34d", "#f9a8d4", "#c4b5fd">>, background |-> "#fefce8"],
   dark |-> [colors |-> <<"#60a5fa", "#34d399", "#fbbf24", "#f472b6", "#a78bfa">>, background |-> "#1f2937"]]

\* COLOR_PALETTES[paletteKey] || COLOR_PALETTES.professional
getColorPalette(paletteKey) ==
  IF paletteKey \in DOMAIN COLOR_PALETTES THEN COLOR_PALETTES[paletteKey]
  ELSE COLOR_PALETTES.professional

\* colors[index % colors.length], for the element at position i (counted from 1).
ColorAt(colors, i) == colors[((i - 1) % Len(colors)) + 1]

\* Variant: connectors take the first color.
PaletteStroke_FirstForConnectors(element, i, colors) ==
  IF IsShape(element) THEN Val(ColorAt(colors, i))
  ELSE IF IsConnector(element) \/ element.type = "text" THEN Val(colors[1])
  ELSE element.strokeColor

\* The stroke color the map callback of applyColorPalette leaves on an element.
PaletteStroke(element, i, colors) ==
  IF IsShape(element) \/ IsConnector(element) THEN Val(ColorAt(colors, i))
  ELSE IF element.type = "text" THEN Val(colors[1])
  ELSE element.strokeColor

\* Variant: elements of other kinds are left out of the result.
PaletteMap_KnownKindsOnly(elems, colors, background) ==
  LET Known(el) == IsShape(el) \/ IsConnector(el) \/ el.type = "text"
      kept == SelectSeq(elems, Known)
  IN [i \in 1..Len(kept) |->
        [kept[i] EXCEPT !.strokeColor = Val(ColorAt(colors, i)),
                        !.backgroundColor = IF IsShape(kept[i]) THEN Val(background) ELSE @]]

\* The map of applyColorPalette over colors and background.
PaletteMap(elems, colors, background) ==
  [i \in 1..Len(elems) |->
     [elems[i] EXCEPT !.strokeColor = PaletteStroke(elems[i], i, colors),
                      !.backgroundColor = IF IsShape(elems[i]) THEN Val(background) ELSE @]]

applyColorPalette(elems, paletteKey) ==
  PaletteMap(elems, getColorPalette(paletteKey).colors, getColorPalette(paletteKey).background)

\* The stroke color the map callback of applyColorScheme leaves on an element.
SchemeStroke(element, i, colorScheme) ==
  LET colors == <<colorScheme.primary, colorScheme.secondary, colorScheme.accent>>
  IN IF IsShape(element) THEN Val(ColorAt(colors, i))
     ELSE IF IsConnector(element) \/ element.type = "text" THEN Val(colorScheme.primary)
     ELSE element.strokeColor

applyColorScheme(elems, colorScheme) ==
  [i \in 1..Len(elems) |->
     [elems[i] EXCEPT !.strokeColor = SchemeStroke(elems[i], i, colorScheme),
                      !.backgroundColor = IF IsShape(elems[i]) THEN Val(colorScheme.background) ELSE @]]

(***************************************************************************)
(* lib/ai-optimizer: the diagrams the functions are called on              *)
(***************************************************************************)
MaxElems == 3          \* elements of a diagram built from the sample elements

\* Sample elements, before their ids: shapes that overlap, touch and lie apart,
\* sizes absent, zero, too small and fine, texts blank and not, opacities in
\* and out of range.
SampleElements ==
  { Element(0, "rectangle", 0, 0, Val(100), Val(50), Absent, Absent),
    Element(0, "rectangle", 100, 0, Absent, Absent, Absent, Val(50)),
    Element(0, "ellipse", 50, 25, Val(10), Val(10), Absent, Val(0 - 5)),
    Element(0, "arrow", 0, 0, Val(0), Val(40), Absent, Absent),
    Element(0, "text", 300, 300, Absent, Absent, Val(<<SP>>), Val(150)),
    Element(0, "diamond", 60, 0, Val(0), Val(50), Absent, Absent),
    Element(0, "line", 0, 0, Val(80), Val(0), Absent, Absent),
    Element(0, "text", 50, 10, Val(20), Absent, Val(<<"h", "i">>), Absent),
    Element(0, "rectangle", 400, 400, Val(10), Val(5), Absent, Absent) }

\* element.id: the position the element had when the diagram was made.
WithIds(elems) == [i \in 1..Len(elems) |-> [elems[i] EXCEPT !.id = i]]

Kinds == <<"rectangle", "ellipse", "diamond", "arrow", "line", "text", "image">>

\* One element of every kind, starting with the kind at position k: longer
\* than any palette, with every kind at every position over all k.
KindsFrom(k) ==
  [i \in 1..Len(Kinds) |->
     Element(0, Kinds[((i + k - 2) % Len(Kinds)) + 1], 200 * i, 0, Val(100), Val(50), Val(<<"h">>), Absent)]

OptDiagrams ==
  {WithIds(d) : d \in SeqsUpTo({<<e>> : e \in SampleElements}, MaxElems)}
    \cup {WithIds(KindsFrom(k)) : k \in 1..Len(Kinds)}

PaletteKeys == DOMAIN COLOR_PALETTES \cup {"neon"}

ColorSchemes ==
  { [primary |-> "#111111", secondary |-> "#222222", accent |-> "#333333", background |-> "#eeeeee"],
    [primary |-> "#444444", secondary |-> "#444444", accent |-> "#555555", background |-> "#ffffff"] }

NoColors == [key |-> "", scheme |-> [primary |-> "", secondary |-> "", accent |-> "", background |-> ""]]
NoResult == [elements |-> <<>>, fixes |-> <<>>, hasIssues |-> FALSE, overlaps |-> <<>>]

OptInit ==
  /\ oin \in OptDiagrams
  /\ ocolors = NoColors
  /\ oout = NoResult
  /\ oprev = NoResult
  /\ opc = "ready"

\* No call of the optimizer under test.
OptIdle ==
  /\ oin = <<>>
  /\ ocolors = NoColors
  /\ oout = NoResult
  /\ oprev = NoResult
  /\ opc = "off"

\* autoFixDiagram(elements)
AutoFix ==
  /\ opc = "ready"
  /\ oout' = [NoResult EXCEPT !.elements = autoFixDiagram(oin).elements,
                              !.fixes = autoFixDiagram(oin).fixes,
                              !.hasIssues = autoFixDiagram(oin).hasIssues]
  /\ oprev' = oout
  /\ opc' = "autoFixDiagram"
  /\ UNCHANGED <<oin, ocolors, nvars, pvars, hvars, cvars, evars>>

\* autoFixDiagram on the elements the first run returned.
AutoFixAgain ==
  /\ opc = "autoFixDiagram"
  /\ oout' = [NoResult EXCEPT !.elements = autoFixDiagram(oout.elements).elements,
                              !.fixes = autoFixDiagram(oout.elements).fixes,
                              !.hasIssues = autoFixDiagram(oout.elements).hasIssues]
  /\ oprev' = oout
  /\ opc' = "autoFixDiagram again"
  /\ UNCHANGED <<oin, ocolors, nvars, pvars, hvars, cvars, evars>>

\* detectOverlaps(elements)
DetectOverlaps ==
  /\ opc = "ready"
  /\ oout' = [NoResult EXCEPT !.overlaps = detectOverlaps(oin)]
  /\ oprev' = oout
  /\ opc' = "detectOverlaps"
  /\ UNCHANGED <<oin, ocolors, nvars, pvars, hvars, cvars, evars>>

\* applyColorPalette(elements, paletteKey)
ApplyPalette(paletteKey) ==
  /\ opc = "ready"
  /\ ocolors' = [NoColors EXCEPT !.key = paletteKey]
  /\ oout' = [NoResult EXCEPT !.elements = applyColorPalette(oin, paletteKey)]
  /\ oprev' = oout
  /\ opc' = "applyColorPalette"
  /\ UNCHANGED <<oin, nvars, pvars, hvars, cvars, evars>>

\* applyColorScheme(elements, colorScheme)
ApplyScheme(colorScheme) ==
  /\ opc = "ready"
  /\ ocolors' = [NoColors EXCEPT !.scheme = colorScheme]
  /\ oout' = [NoResult EXCEPT !.elements = applyColorScheme(oin, colorScheme)]
  /\ oprev' = oout
  /\ opc' = "applyColorScheme"
  /\ UNCHANGED <<oin, nvars, pvars, hvars, cvars, evars>>

OptNext ==
  \/ AutoFix
  \/ AutoFixAgain
  \/ DetectOverlaps
  \/ \E paletteKey \in PaletteKeys : ApplyPalette(paletteKey)
  \/ \E colorScheme \in ColorSchemes : ApplyScheme(colorScheme)

(***************************************************************************)
(* lib/history: saveDiagramToHistory, cleanupOldHistory, getHistoryStats   *)
(*                                                                         *)
(* Transactions on one object store run one after the other in the order   *)
(* they were opened; a request's callback runs inside its transaction.     *)
(***************************************************************************)
MAX_HISTORY_ITEMS == 100

MaxSaves == 3
MaxStats == 1

Savers == 1..MaxSaves

NoItem == [id |-> 0, timestamp |-> 0]

\* by is the caller of saveDiagramToHistory a put belongs to (0: none).
Transaction(kind, by, item, ids) ==
  [kind |-> kind, by |-> by, item |-> item, ids |-> ids]

\* The diagrams a cursor on the index 'timestamp' visits before d.
Older(d, store) == {e \in store : e.timestamp < d.timestamp}

\* allItems.slice(0, allItems.length - MAX_HISTORY_ITEMS), allItems being
\* the store's diagrams from the oldest to the newest.
itemsToDelete(allItems) ==
  {d \in allItems :
     Cardinality(Older(d, allItems)) < Cardinality(allItems) - MAX_HISTORY_ITEMS}

\* objectStore.put: the store is keyed by id.
put(store, item) == {d \in store : d.id # item.id} \cup {item}

\* The store holds n diagrams saved earlier, one per tick of the clock.
Stored(n) == {[id |-> k, timestamp |-> k] : k \in 1..n}

HistInitSizes == {MAX_HISTORY_ITEMS - 2, MAX_HISTORY_ITEMS - 1, MAX_HISTORY_ITEMS}

HistInit ==
  /\ \E n \in HistInitSizes :
       /\ diagrams = Stored(n)
       /\ clock = n + 1
       /\ totalDiagrams = n
  /\ transactions = << >>
  /\ saves = [i \in Savers |-> "idle"]
  /\ stats = 0
  /\ hpc = "start"

HistIdle ==
  /\ diagrams = {}
  /\ transactions = << >>
  /\ saves = [i \in Savers |-> "idle"]
  /\ stats = 0
  /\ clock = 1
  /\ totalDiagrams = 0
  /\ hpc = "off"

\* saveDiagramToHistory is called and awaits openDatabase.
SaveCall(i) ==
  /\ saves[i] = "idle"
  /\ saves' = [saves EXCEPT ![i] = "openDatabase"]
  /\ hpc' = "saveDiagramToHistory"
  /\ UNCHANGED <<diagrams, transactions, stats, clock, totalDiagrams, nvars, pvars, ovars, cvars, evars>>

\* The database is open: the item is built with a fresh id and the time of
\* the clock, and a transaction is opened for objectStore.put(historyItem).
SavePut(i) ==
  /\ saves[i] = "openDatabase"
  /\ transactions' = Append(transactions,
                            Transaction("put", i, [id |-> clock, timestamp |-> clock], {}))
  /\ clock' = clock + 1
  /\ saves' = [saves EXCEPT ![i] = "put"]
  /\ hpc' = "put"
  /\ UNCHANGED <<diagrams, stats, totalDiagrams, nvars, pvars, ovars, cvars, evars>>

\* The put succeeds: request.onsuccess calls cleanupOldHistory(db), which
\* opens its cursor transaction, and resolves the caller's promise without
\* waiting for the cleanup.
RunPut ==
  /\ transactions # << >>
  /\ Head(transactions).kind = "put"
  /\ diagrams' = put(diagrams, Head(transactions).item)
  /\ transactions' = Append(Tail(transactions), Transaction("openCursor", 0, NoItem, {}))
  /\ saves' = [saves EXCEPT ![Head(transactions).by] = "resolved"]
  /\ hpc' = "resolved"
  /\ UNCHANGED <<stats, clock, totalDiagrams, nvars, pvars, ovars, cvars, evars>>

\* cleanupOldHistory: the cursor has visited every diagram; the oldest ones
\* beyond the maximum are handed to a delete transaction opened now.
RunCursor ==
  /\ transactions # << >>
  /\ Head(transactions).kind = "openCursor"
  /\ transactions' =
       IF Cardinality(diagrams) > MAX_HISTORY_ITEMS
       THEN Append(Tail(transactions),
                   Transaction("delete", 0, NoItem, {d.id : d \in itemsToDelete(diagrams)}))
       ELSE Tail(transactions)
  /\ hpc' = "openCursor"
  /\ UNCHANGED <<diagrams, saves, stats, clock, totalDiagrams, nvars, pvars, ovars, cvars, evars>>

\* cleanupOldHistory: deleteStore.delete(item.id) for every item to delete.
RunDelete ==
  /\ transactions # << >>
  /\ Head(transactions).kind = "delete"
  /\ diagrams' = {d \in diagrams : d.id \notin Head(transactions).ids}
  /\ transactions' = Tail(transactions)
  /\ hpc' = "delete"
  /\ UNCHANGED <<saves, stats, clock, totalDiagrams, nvars, pvars, ovars, cvars, evars>>

\* getHistoryStats, called by a caller whose saveDiagramToHistory has
\* resolved: a transaction is opened for objectStore.count().
StatsCall ==
  /\ stats < MaxStats
  /\ \E i \in Savers : saves[i] = "resolved"
  /\ stats' = stats + 1
  /\ transactions' = Append(transactions, Transaction("count", 0, NoItem, {}))
  /\ hpc' = "getHistoryStats"
  /\ UNCHANGED <<diagrams, saves, clock, totalDiagrams, nvars, pvars, ovars, cvars, evars>>

\* getHistoryStats resolves with totalDiagrams: countRequest.result.
RunCount ==
  /\ transactions # << >>
  /\ Head(transactions).kind = "count"
  /\ totalDiagrams' = Cardinality(diagrams)
  /\ transactions' = Tail(transactions)
  /\ hpc' = "count"
  /\ UNCHANGED <<diagrams, saves, stats, clock, nvars, pvars, ovars, cvars, evars>>

HistNext ==
  \/ \E i \in Savers : SaveCall(i)
  \/ \E i \in Savers : SavePut(i)
  \/ RunPut
  \/ RunCursor
  \/ RunDelete
  \/ StatsCall
  \/ RunCount

(***************************************************************************)
(* lib/config: the provider configurations, in localStorage (lib/config.js) *)
(* or behind /api/config (the server-backed lib/config), and the handlers  *)
(* of the configuration dialog (ConfigModal)                               *)
(***************************************************************************)
MaxConfigOps == 4      \* calls of the configuration functions and handlers in a run
MaxClock == 2          \* values Date.now() takes in a run

Null == "null"

Provider(id, model) == [id |-> id, model |-> model]

\* { providers: [], currentProviderId: null }
EmptyConfig == [providers |-> << >>, currentProviderId |-> Null]

\* providers.findIndex(p => p.id === id): 0 when there is none.
findIndex(providers, id) ==
  LET at == {i \in 1..Len(providers) : providers[i].id = id}
  IN IF at = {} THEN 0 ELSE CHOOSE i \in at : \A j \in at : i <= j

\* providers.filter(p => p.id !== providerId)
RECURSIVE filterOut(_, _)
filterOut(providers, providerId) ==
  IF providers = << >> THEN << >>
  ELSE IF Head(providers).id = providerId THEN filterOut(Tail(providers), providerId)
  ELSE <<Head(providers)>> \o filterOut(Tail(providers), providerId)

\* 'provider_' + Date.now()
GeneratedId(t) == IF t = 1 THEN "provider_1" ELSE IF t = 2 THEN "provider_2" ELSE "provider_3"

\* getConfig on a loaded configuration: the current provider, or null.
CurrentOf(cfg) ==
  IF cfg.currentProviderId = Null \/ cfg.providers = << >>
     \/ findIndex(cfg.providers, cfg.currentProviderId) = 0
  THEN Provider(Null, "")
  ELSE cfg.providers[findIndex(cfg.providers, cfg.currentProviderId)]

\* saveProvider from the loaded configuration to the configuration it saves.
savedConfig(cfg, provider, isCurrent, t) ==
  LET existingIndex == findIndex(cfg.providers, provider.id)
      named == IF existingIndex = 0 /\ provider.id = ""
               THEN [provider EXCEPT !.id = GeneratedId(t)] ELSE provider
      providers == IF existingIndex > 0
                   THEN [cfg.providers EXCEPT ![existingIndex] = provider]
                   ELSE Append(cfg.providers, named)
  IN [providers |-> providers,
      currentProviderId |-> IF isCurrent THEN named.id ELSE cfg.currentProviderId]

\* Mutant: the current provider stays as it was unless no provider remains.
deletedConfig_KeepsCurrent(cfg, providerId) ==
  LET newProviders == filterOut(cfg.providers, providerId)
  IN [providers |-> newProviders,
      currentProviderId |-> IF newProviders = << >> THEN Null ELSE cfg.currentProviderId]

\* deleteProvider from the loaded configuration to the configuration it saves.
deletedConfig(cfg, providerId) ==
  LET newProviders == filterOut(cfg.providers, providerId)
  IN [providers |-> newProviders,
      currentProviderId |->
        IF cfg.currentProviderId = providerId /\ newProviders # << >> THEN newProviders[1].id
        ELSE IF newProviders = << >> THEN Null
        ELSE cfg.currentProviderId]

\* The values the calls of a run are made with.
ProviderIds == {"a", "b"}
CallIds == ProviderIds \cup {GeneratedId(1)}
Models == {"m1", "m2"}
FormProviders == {Provider(id, model) : id \in ProviderIds \cup {""}, model \in Models}

NoRequest == [op |-> "none", provider |-> Provider(Null, ""), isCurrent |-> FALSE,
              providerId |-> Null, phase |-> "none", configData |-> EmptyConfig]

Outcome(op, providerId, raised, before) ==
  [op |-> op, providerId |-> providerId, raised |-> raised, before |-> before]

ConfigInit ==
  /\ backend \in {"localStorage", "server"}
  /\ storage = EmptyConfig
  /\ request = NoRequest
  /\ cnow = 1
  /\ allConfigs = EmptyConfig
  /\ isOpen = FALSE
  /\ onSave = << >>
  /\ outcome = Outcome("none", Null, "", EmptyConfig)
  /\ cops = 0

ConfigIdle ==
  /\ backend = "off"
  /\ storage = EmptyConfig
  /\ request = NoRequest
  /\ cnow = 1
  /\ allConfigs = EmptyConfig
  /\ isOpen = FALSE
  /\ onSave = << >>
  /\ outcome = Outcome("none", Null, "", EmptyConfig)
  /\ cops = 0

\* A call of a configuration function or a handler of the dialog begins.
ConfigOp ==
  /\ cops < MaxConfigOps
  /\ cops' = cops + 1
  /\ request = NoRequest
  /\ UNCHANGED <<backend, nvars, pvars, ovars, hvars, evars>>

\* Time passes between two calls.
Tick ==
  /\ cnow < MaxClock
  /\ request = NoRequest
  /\ cnow' = cnow + 1
  /\ UNCHANGED <<storage, backend, request, allConfigs, isOpen, onSave, outcome, cops,
                 nvars, pvars, ovars, hvars, evars>>

\* lib/config.js saveProvider(provider, isCurrent): getAllConfigs, saveAllConfigs.
SaveProvider(provider, isCurrent) ==
  /\ backend = "localStorage"
  /\ ConfigOp
  /\ storage' = savedConfig(storage, provider, isCurrent, cnow)
  /\ outcome' = Outcome("saveProvider", provider.id, "", storage)
  /\ UNCHANGED <<request, cnow, allConfigs, isOpen, onSave>>

\* lib/config.js deleteProvider(providerId)
DeleteProvider(providerId) ==
  /\ backend = "localStorage"
  /\ ConfigOp
  /\ storage' = deletedConfig(storage, providerId)
  /\ outcome' = Outcome("deleteProvider", providerId, "", storage)
  /\ UNCHANGED <<request, cnow, allConfigs, isOpen, onSave>>

\* lib/config.js setCurrentProvider(providerId)
SetCurrentProvider(providerId) ==
  /\ backend = "localStorage"
  /\ ConfigOp
  /\ IF findIndex(storage.providers, providerId) = 0
     THEN /\ outcome' = Outcome("setCurrentProvider", providerId, "Provider not found", storage)
          /\ UNCHANGED storage
     ELSE /\ storage' = [storage EXCEPT !.currentProviderId = providerId]
          /\ outcome' = Outcome("setCurrentProvider", providerId, "", storage)
  /\ UNCHANGED <<request, cnow, allConfigs, isOpen, onSave>>

\* The dialog opens: setAllConfigs(getAllConfigs()).
OpenModal ==
  /\ backend = "localStorage"
  /\ ~isOpen
  /\ ConfigOp
  /\ isOpen' = TRUE
  /\ allConfigs' = storage
  /\ outcome' = Outcome("open", Null, "", storage)
  /\ UNCHANGED <<storage, request, cnow, onSave>>

\* handleSave with a complete form: saveProvider(config, true); onSave(config); onClose().
HandleSave(provider) ==
  /\ backend = "localStorage"
  /\ isOpen
  /\ ConfigOp
  /\ storage' = savedConfig(storage, provider, TRUE, cnow)
  /\ onSave' = Append(onSave, CurrentOf(savedConfig(storage, provider, TRUE, cnow)))
  /\ isOpen' = FALSE
  /\ outcome' = Outcome("handleSave", provider.id, "", storage)
  /\ UNCHANGED <<request, cnow, allConfigs>>

\* handleSetCurrentProvider of a listed provider.
HandleSetCurrentProvider(providerId) ==
  /\ backend = "localStorage"
  /\ isOpen
  /\ findIndex(allConfigs.providers, providerId) > 0
  /\ ConfigOp
  /\ IF findIndex(storage.providers, providerId) = 0
     THEN /\ outcome' = Outcome("handleSetCurrentProvider", providerId, "Provider not found", storage)
          /\ UNCHANGED <<storage, allConfigs, onSave>>
     ELSE /\ storage' = [storage EXCEPT !.currentProviderId = providerId]
          /\ allConfigs' = storage'
          /\ onSave' = Append(onSave, allConfigs.providers[findIndex(allConfigs.providers, providerId)])
          /\ outcome' = Outcome("handleSetCurrentProvider", providerId, "", storage)
  /\ UNCHANGED <<request, cnow, isOpen>>

\* handleDeleteProvider of a listed provider, confirmed: deleteProvider,
\* setAllConfigs(getAllConfigs()), and for the current provider getConfig(),
\* a name the module neither imports nor defines: the call raises a
\* ReferenceError before onSave is reached.
HandleDeleteProvider(providerId) ==
  /\ backend = "localStorage"
  /\ isOpen
  /\ findIndex(allConfigs.providers, providerId) > 0
  /\ ConfigOp
  /\ storage' = deletedConfig(storage, providerId)
  /\ allConfigs' = storage'
  /\ outcome' = Outcome("handleDeleteProvider", providerId,
                        IF allConfigs.currentProviderId = providerId
                        THEN "getConfig is not defined" ELSE "",
                        storage)
  /\ UNCHANGED <<request, cnow, isOpen, onSave>>

\* The server-backed lib/config: a call begins and awaits getAllConfigs.
ServerCall(op, provider, isCurrent, providerId) ==
  /\ backend = "server"
  /\ ConfigOp
  /\ request' = [op |-> op, provider |-> provider, isCurrent |-> isCurrent,
                 providerId |-> providerId, phase |-> "getAllConfigs", configData |-> EmptyConfig]
  /\ outcome' = Outcome(op, IF op = "saveProvider" THEN provider.id ELSE providerId, "pending", storage)
  /\ UNCHANGED <<storage, cnow, allConfigs, isOpen, onSave>>

\* getAllConfigs resolves, with the stored configuration or, when the fetch
\* or the response failed, with { providers: [], currentProviderId: null };
\* the call goes on to saveAllConfigs or raises.
ServerLoaded(ok) ==
  /\ request.phase = "getAllConfigs"
  /\ LET loaded == IF ok THEN storage ELSE EmptyConfig
     IN IF request.op = "setCurrentProvider" /\ findIndex(loaded.providers, request.providerId) = 0
        THEN /\ request' = NoRequest
             /\ outcome' = [outcome EXCEPT !.raised = "Provider not found"]
        ELSE /\ request' =
                  [request EXCEPT
                     !.phase = "saveAllConfigs",
                     !.configData =
                        CASE request.op = "saveProvider" ->
                               savedConfig(loaded, request.provider, request.isCurrent, cnow)
                          [] request.op = "deleteProvider" -> deletedConfig(loaded, request.providerId)
                          [] OTHER -> [loaded EXCEPT !.currentProviderId = request.providerId]]
             /\ UNCHANGED outcome
  /\ UNCHANGED <<storage, backend, cnow, allConfigs, isOpen, onSave, cops, nvars, pvars, ovars, hvars, evars>>

\* saveAllConfigs: the POST stores configData, or fails and the call raises.
ServerSaved(ok) ==
  /\ request.phase = "saveAllConfigs"
  /\ storage' = IF ok THEN request.configData ELSE storage
  /\ outcome' = [outcome EXCEPT !.raised = IF ok THEN "" ELSE "Failed to save configurations"]
  /\ request' = NoRequest
  /\ UNCHANGED <<backend, cnow, allConfigs, isOpen, onSave, cops, nvars, pvars, ovars, hvars, evars>>

ConfigNext ==
  \/ Tick
  \/ \E provider \in FormProviders, isCurrent \in BOOLEAN : SaveProvider(provider, isCurrent)
  \/ \E providerId \in CallIds : DeleteProvider(providerId)
  \/ \E providerId \in CallIds : SetCurrentProvider(providerId)
  \/ OpenModal
  \/ \E provider \in FormProviders : HandleSave(provider)
  \/ \E providerId \in CallIds : HandleSetCurrentProvider(providerId)
  \/ \E providerId \in CallIds : HandleDeleteProvider(providerId)
  \/ \E provider \in FormProviders, isCurrent \in BOOLEAN :
       ServerCall("saveProvider", provider, isCurrent, Null)
  \/ \E providerId \in CallIds :
       \E op \in {"deleteProvider", "setCurrentProvider"} :
         ServerCall(op, Provider(Null, ""), FALSE, providerId)
  \/ \E ok \in BOOLEAN : ServerLoaded(ok)
  \/ \E ok \in BOOLEAN : ServerSaved(ok)

(***************************************************************************)
(* lib/history: updateDiagram, deleteDiagram, deleteDiagrams and           *)
(* clearAllHistory on a small store. A request of updateDiagram,           *)
(* deleteDiagram and clearAllHistory succeeds; a delete request of         *)
(* deleteDiagrams succeeds or fails, and a failed request, whose error     *)
(* event nothing prevents, aborts its transaction.                         *)
(***************************************************************************)
MaxStore == 3          \* diagrams in the store at the start

StoreIds == 1..MaxStore

NoUpdate == [state |-> "idle", id |-> 0, updates |-> NoItem, diagram |-> NoItem,
             raised |-> "", wrote |-> FALSE]

NoRemoval == [state |-> "idle", kind |-> "none", id |-> 0, afterRead |-> FALSE]

NoBatch == [state |-> "idle", ids |-> << >>, done |-> 0, completed |-> 0, failed |-> FALSE,
            resolves |-> 0, rejects |-> 0, rejectedAt |-> 0, snapshot |-> {}]

\* The lists of ids deleteDiagrams is called with: distinct ids, the empty
\* list among them.
IdLists ==
  {<< >>} \cup {<<a>> : a \in StoreIds}
          \cup {l \in {<<a, b>> : a, b \in StoreIds} : l[1] # l[2]}

\* { ...diagram, ...updates, id }
updatedDiagram(diagram, updates, id) == [id |-> id, timestamp |-> updates.timestamp]

\* objectStore.get(id): the stored diagram, or undefined.
get(store, id) ==
  IF \E d \in store : d.id = id THEN CHOOSE d \in store : d.id = id ELSE NoItem

EditInit ==
  /\ \E n \in 0..MaxStore :
       /\ diagrams = Stored(n)
       /\ clock = n + 1
       /\ totalDiagrams = n
  /\ transactions = << >>
  /\ saves = [i \in Savers |-> "idle"]
  /\ stats = 0
  /\ hpc = "start"
  /\ update = NoUpdate
  /\ removal = NoRemoval
  /\ batch = NoBatch

EditIdle ==
  /\ update = NoUpdate
  /\ removal = NoRemoval
  /\ batch = NoBatch

\* updateDiagram(id, updates) is called and awaits openDatabase.
UpdateCall(id, updates) ==
  /\ update.state = "idle"
  /\ update' = [NoUpdate EXCEPT !.state = "openDatabase", !.id = id, !.updates = updates]
  /\ hpc' = "updateDiagram"
  /\ UNCHANGED <<diagrams, transactions, saves, stats, clock, totalDiagrams, removal, batch,
                 nvars, pvars, ovars, cvars>>

\* getDiagramById(id): the database is open and a read-only transaction is
\* opened for objectStore.get(id).
UpdateGet ==
  /\ update.state = "openDatabase"
  /\ transactions' = Append(transactions, Transaction("get", 0, NoItem, {update.id}))
  /\ update' = [update EXCEPT !.state = "get"]
  /\ hpc' = "getDiagramById"
  /\ UNCHANGED <<diagrams, saves, stats, clock, totalDiagrams, removal, batch,
                 nvars, pvars, ovars, cvars>>

\* The get succeeds and updateDiagram goes on: without a diagram it raises
\* 'Diagram not found'; with one it opens a transaction now for
\* objectStore.put(updatedDiagram).
RunGet ==
  /\ transactions # << >>
  /\ Head(transactions).kind = "get"
  /\ LET diagram == get(diagrams, update.id)
     IN IF diagram = NoItem
        THEN /\ update' = [update EXCEPT !.state = "rejected", !.raised = "Diagram not found"]
             /\ transactions' = Tail(transactions)
        ELSE /\ update' = [update EXCEPT !.state = "put", !.diagram = diagram]
             /\ transactions' =
                  Append(Tail(transactions),
                         Transaction("update", 0,
                                     updatedDiagram(diagram, update.updates, update.id), {}))
  /\ hpc' = "get"
  /\ UNCHANGED <<diagrams, saves, stats, clock, totalDiagrams, removal, batch,
                 nvars, pvars, ovars, cvars>>

\* The put of updateDiagram succeeds and the call resolves.
RunUpdatePut ==
  /\ transactions # << >>
  /\ Head(transactions).kind = "update"
  /\ diagrams' = put(diagrams, Head(transactions).item)
  /\ transactions' = Tail(transactions)
  /\ update' = [update EXCEPT !.state = "resolved", !.wrote = TRUE]
  /\ hpc' = "updated"
  /\ UNCHANGED <<saves, stats, clock, totalDiagrams, removal, batch, nvars, pvars, ovars, cvars>>

\* deleteDiagram(id) or clearAllHistory() is called and awaits openDatabase.
RemovalCall(kind, id) ==
  /\ removal.state = "idle"
  /\ removal' = [NoRemoval EXCEPT !.state = "openDatabase", !.kind = kind, !.id = id]
  /\ hpc' = kind
  /\ UNCHANGED <<diagrams, transactions, saves, stats, clock, totalDiagrams, update, batch,
                 nvars, pvars, ovars, cvars>>

\* The database is open: a transaction is opened for objectStore.delete(id)
\* or objectStore.clear().
RemovalOpen ==
  /\ removal.state = "openDatabase"
  /\ transactions' = Append(transactions, Transaction(removal.kind, 0, NoItem, {removal.id}))
  /\ removal' = [removal EXCEPT !.state = "pending"]
  /\ hpc' = "removal"
  /\ UNCHANGED <<diagrams, saves, stats, clock, totalDiagrams, update, batch,
                 nvars, pvars, ovars, cvars>>

\* The delete or the clear succeeds and the call resolves; afterRead tells
\* whether the updateDiagram of the run had read and not yet written.
RunRemoval ==
  /\ transactions # << >>
  /\ Head(transactions).kind \in {"deleteDiagram", "clearAllHistory"}
  /\ diagrams' = IF Head(transactions).kind = "clearAllHistory" THEN {}
                 ELSE {d \in diagrams : d.id \notin Head(transactions).ids}
  /\ transactions' = Tail(transactions)
  /\ removal' = [removal EXCEPT !.state = "resolved", !.afterRead = (update.state = "put")]
  /\ hpc' = "removed"
  /\ UNCHANGED <<saves, stats, clock, totalDiagrams, update, batch, nvars, pvars, ovars, cvars>>

\* deleteDiagrams(ids) is called and awaits openDatabase.
BatchCall(ids) ==
  /\ batch.state = "idle"
  /\ batch' = [NoBatch EXCEPT !.state = "openDatabase", !.ids = ids]
  /\ hpc' = "deleteDiagrams"
  /\ UNCHANGED <<diagrams, transactions, saves, stats, clock, totalDiagrams, update, removal,
                 nvars, pvars, ovars, cvars>>

\* The database is open: one transaction is opened and ids.forEach places a
\* delete request in it for every id. With no id the transaction has no
\* request, completes by itself and calls nothing back.
BatchOpen ==
  /\ batch.state = "openDatabase"
  /\ transactions' = IF batch.ids = << >> THEN transactions
                     ELSE Append(transactions, Transaction("deleteDiagrams", 0, NoItem, {}))
  /\ batch' = [batch EXCEPT !.state = "pending"]
  /\ hpc' = "batch"
  /\ UNCHANGED <<diagrams, saves, stats, clock, totalDiagrams, update, removal,
                 nvars, pvars, ovars, cvars>>

\* The next delete request of deleteDiagrams is served. onsuccess counts it
\* and resolves when all are counted and none had failed; onerror rejects
\* unless one had failed before, and the transaction aborts: what it had
\* deleted is restored and its remaining requests fail, which rejects
\* nothing more.
RunBatchRequest(ok) ==
  /\ transactions # << >>
  /\ Head(transactions).kind = "deleteDiagrams"
  /\ LET started == IF batch.done = 0 THEN [batch EXCEPT !.snapshot = diagrams] ELSE batch
         id == batch.ids[batch.done + 1]
         completed == batch.completed + 1
     IN IF ok
        THEN /\ diagrams' = {d \in diagrams : d.id # id}
             /\ batch' =
                  [started EXCEPT
                     !.done = @ + 1,
                     !.completed = completed,
                     !.resolves = IF completed = Len(batch.ids) /\ ~batch.failed THEN @ + 1 ELSE @,
                     !.state = IF completed = Len(batch.ids) /\ ~batch.failed
                               THEN "resolved" ELSE @]
             /\ transactions' = IF batch.done + 1 = Len(batch.ids)
                                THEN Tail(transactions) ELSE transactions
        ELSE /\ diagrams' = started.snapshot
             /\ batch' =
                  [started EXCEPT
                     !.done = Len(batch.ids),
                     !.failed = TRUE,
                     !.rejects = IF batch.failed THEN @ ELSE @ + 1,
                     !.rejectedAt = IF batch.failed THEN @ ELSE batch.done + 1,
                     !.state = IF batch.failed THEN @ ELSE "rejected"]
             /\ transactions' = Tail(transactions)
  /\ hpc' = "batchRequest"
  /\ UNCHANGED <<saves, stats, clock, totalDiagrams, update, removal, nvars, pvars, ovars, cvars>>

EditNext ==
  \/ \E id \in StoreIds : UpdateCall(id, [id |-> 0, timestamp |-> MaxStore + 1])
  \/ UpdateGet
  \/ RunGet
  \/ RunUpdatePut
  \/ \E id \in StoreIds : RemovalCall("deleteDiagram", id)
  \/ RemovalCall("clearAllHistory", 0)
  \/ RemovalOpen
  \/ RunRemoval
  \/ \E ids \in IdLists : BatchCall(ids)
  \/ BatchOpen
  \/ \E ok \in BOOLEAN : RunBatchRequest(ok)

NormIdle ==
  /\ nsrc = NonText(NoValue)
  /\ ncode = NoValue
  /\ nout = Returned(NoValue)
  /\ npc = "off"

Init == PageInit /\ NormIdle /\ OptIdle /\ HistIdle /\ ConfigIdle /\ EditIdle

Spec == Init /\ [][Next]_vars

\* The page at rest around one call of the normalizer.
InitNormalize == NormInit /\ PageInit /\ OptIdle /\ HistIdle /\ ConfigIdle /\ EditIdle

\* A promise a handleSendMessage call awaits settles, or its stream ends:
\* fetch, response.json of an error response, the read that ends or breaks
\* the stream, generateThumbnail and saveDiagramToHistory.
Settles ==
  \/ FetchRejects
  \/ FetchNotOk
  \/ \E m \in ServerMessages : ErrorBodyRead(m)
  \/ \E d \in Docs : FetchOk(d)
  \/ \E name \in {"TypeError", "AbortError"} : ReadRejects(name)
  \/ step' = "StreamEnd" /\ StreamEnd
  \/ ThumbnailDone
  \/ ThumbnailFails
  \/ SaveResolves
  \/ SaveRejects

\* The page when every promise a call awaits settles and every response
\* stream ends or breaks.
SpecLive == Init /\ [][Next]_vars /\ WF_vars(Settles)

SpecNormalize == InitNormalize /\ [][NormNext]_vars

\* The page and the normalizer at rest around calls of the optimizer.
InitOptimizer == OptInit /\ PageInit /\ NormIdle /\ HistIdle /\ ConfigIdle /\ EditIdle

SpecOptimizer == InitOptimizer /\ [][OptNext]_vars

\* The page, the normalizer and the optimizer at rest around the history store.
InitHistory == HistInit /\ PageInit /\ NormIdle /\ OptIdle /\ ConfigIdle /\ EditIdle

SpecHistory == InitHistory /\ [][HistNext]_vars

\* Everything else at rest around the provider configurations.
InitConfig == ConfigInit /\ PageInit /\ NormIdle /\ OptIdle /\ HistIdle /\ EditIdle

SpecConfig == InitConfig /\ [][ConfigNext]_vars

\* Everything else at rest around the calls that change stored diagrams.
InitHistoryEdit == EditInit /\ PageInit /\ NormIdle /\ OptIdle /\ ConfigIdle

SpecHistoryEdit == InitHistoryEdit /\ [][EditNext]_vars

(***************************************************************************)
(* Claims about the Normalizer (checked under SpecNormalize)               *)
(***************************************************************************)
CalledOnText == npc = "done" /\ ncode.t = "string"
OutText == nout.value.v

\* t is s without its leading and trailing white space.
IsTrimOf(t, s) ==
  \E i \in 0..Len(s) :
    /\ i + Len(t) <= Len(s)
    /\ t = SubSeq(s, i + 1, i + Len(t))
    /\ \A k \in 1..i : IsSpace(s[k])
    /\ \A k \in (i + Len(t) + 1)..Len(s) : IsSpace(s[k])
    /\ t # <<>> => ~IsSpace(t[1]) /\ ~IsSpace(t[Len(t)])

\* C1 as stated: every syntactically valid JSON text, white space around it
\* included, is returned exactly as it was given.
C1_ValidJsonReturnedUnchanged ==
  (CalledOnText /\ JSONparse(ncode.v).ok) => nout = Returned(ncode)

\* C1 amended: every syntactically valid JSON text is returned with its leading
\* and trailing white space removed and nothing else changed; a valid text with
\* no white space around it is returned exactly as given.
C1_ValidJsonReturnedTrimmed ==
  (CalledOnText /\ JSONparse(ncode.v).ok) =>
    /\ ~nout.raised
    /\ nout.value.t = "string"
    /\ IsTrimOf(OutText, ncode.v)
    /\ (~IsSpace(ncode.v[1]) /\ ~IsSpace(ncode.v[Len(ncode.v)])) => nout = Returned(ncode)

\* A valid JSON text that holds fence characters inside a string and has white
\* space around it has gone through the Normalizer.
C1_Witness ==
  /\ CalledOnText
  /\ JSONparse(ncode.v).ok
  /\ IsSpace(ncode.v[1])
  /\ \E i \in 1..Len(ncode.v) : ncode.v[i] = BT

\* The text a template's body stands for: an escape pair is one character, a
\* bare quote is a quote.  ok is FALSE when the body has another defect (a
\* backslash that begins no escape) or a bare quote that the claim excludes
\* (followed, after white space, by one of : , } ]).
RECURSIVE BodyText(_, _, _)
BodyText(b, i, acc) ==
  IF i > Len(b) THEN [ok |-> TRUE, text |-> acc]
  ELSE IF b[i] = BS THEN
    IF i + 1 <= Len(b) /\ Unescape(b[i + 1]) # ""
    THEN BodyText(b, i + 2, Append(acc, Unescape(b[i + 1])))
    ELSE [ok |-> FALSE, text |-> acc]
  ELSE IF b[i] = DQ THEN
    LET rest == b \o <<DQ>>
    IN IF rest[SkipWs(rest, i + 1)] \in {":", ",", "}", "]"}
       THEN [ok |-> FALSE, text |-> acc]
       ELSE BodyText(b, i + 1, Append(acc, DQ))
  ELSE BodyText(b, i + 1, Append(acc, b[i]))

HasBareQuote(b) ==
  \E i \in 1..Len(b) : b[i] = DQ /\ (i = 1 \/ b[i - 1] # BS)

\* The string value of the template, read out of the parsed document.
TemplateValue(name, val) ==
  CASE name = "object" -> IF HasMember(val, <<"a">>) THEN Member(val, <<"a">>) ELSE NoValue
    [] name = "array" -> IF val.t = "array" /\ Len(val.v) = 1 THEN val.v[1] ELSE NoValue
    [] OTHER -> val

\* C2: a document whose only defect is bare quotes inside its string value,
\* each followed (after white space) by a character other than : , } ], is
\* normalized to text that parses, and the parsed string value is the original
\* text with its quote characters.
C2_BareQuotesRepaired ==
  (npc = "done" /\ nsrc.family = "quoted" /\ BodyText(nsrc.body, 1, <<>>).ok) =>
    /\ ~nout.raised
    /\ nout.value.t = "string"
    /\ JSONparse(OutText).ok
    /\ TemplateValue(nsrc.template, JSONparse(OutText).val) = Str(BodyText(nsrc.body, 1, <<>>).text)

\* A template with a bare quote in its value has been repaired: the text changed.
C2_Witness ==
  /\ npc = "done"
  /\ nsrc.family = "quoted"
  /\ BodyText(nsrc.body, 1, <<>>).ok
  /\ HasBareQuote(nsrc.body)
  /\ ~JSONparse(ncode.v).ok
  /\ OutText # ncode.v

CountOf(s, c) == Cardinality({i \in 1..Len(s) : s[i] = c})

RECURSIVE Without(_, _)
Without(s, c) ==
  IF s = <<>> THEN <<>>
  ELSE IF Head(s) = c THEN Without(Tail(s), c)
  ELSE <<Head(s)>> \o Without(Tail(s), c)

StartsWithFence(t) == MatchAt(t, 1, Fence)
EndsWithFence(t) == Len(t) >= 3 /\ MatchAt(t, Len(t) - 2, Fence)

\* C3: at most one leading and at most one trailing fence marker is removed,
\* from the edges of the trimmed text only; markers elsewhere stay in place; a
\* valid JSON array inside fence markers comes out as the array text alone and
\* parses directly.
C3_FencesStrippedAtEdgesOnce ==
  CalledOnText =>
    LET t == Trim(ncode.v)
        allowed == (IF StartsWithFence(t) THEN 3 ELSE 0) + (IF EndsWithFence(t) THEN 3 ELSE 0)
    IN /\ ~nout.raised
       /\ CountOf(OutText, BT) <= CountOf(t, BT)
       /\ CountOf(t, BT) - CountOf(OutText, BT) <= allowed
       /\ (~StartsWithFence(t) /\ ~EndsWithFence(t)) => Without(OutText, BS) = Without(t, BS)
       /\ (nsrc.family = "wrapped" /\ JSONparse(nsrc.core).ok /\ JSONparse(nsrc.core).val.t = "array") =>
            /\ IsTrimOf(OutText, nsrc.core)
            /\ JSONparse(OutText) = JSONparse(nsrc.core)

\* A valid JSON array that holds a fence marker of its own, wrapped in a leading
\* and a trailing fence marker, has been normalized.
C3_Witness ==
  /\ CalledOnText
  /\ nsrc.family = "wrapped"
  /\ nsrc.pre \in FencePrefixes
  /\ nsrc.suf \in FenceSuffixes
  /\ JSONparse(nsrc.core).ok
  /\ JSONparse(nsrc.core).val.t = "array"
  /\ CountOf(nsrc.core, BT) = 3
  /\ CountOf(OutText, BT) = 3

\* C4: postProcessExcalidrawCode returns for every argument; no exception
\* escapes it.
C4_NormalizerNeverRaises == npc = "done" => ~nout.raised

\* The call has returned for a truthy argument that is no text, and for a text
\* that ends inside a string.
C4_Witness ==
  /\ npc = "done"
  /\ ~nout.raised
  /\ \/ ncode.t # "string" /\ ~Falsy(ncode)
     \/ ncode.t = "string" /\ ncode.v # <<>> /\ ~JSONparse(OutText).ok /\ ncode.v[Len(ncode.v)] = BS

(***************************************************************************)
(* Claims about the page (checked under Spec)                              *)
(***************************************************************************)
\* Normalizer, then the array from the first '[' to the last ']' of the
\* trimmed result, parsed: what one run on the whole text d gives.
OneShot(d) ==
  LET t == Trim(postProcessExcalidrawCode(Str(d)).value.v)
      opens == IndicesOf(t, "[")
      closes == IndicesOf(t, "]")
  IN IF opens = {} \/ closes = {} \/ MaxOf(closes) < MinOf(opens) THEN [ok |-> FALSE, val |-> NoValue]
     ELSE LET r == JSONparse(SubSeq(t, MinOf(opens), MaxOf(closes)))
          IN [ok |-> r.ok, val |-> r.val]

\* C5: when the stream closes after the whole document has arrived, in whatever
\* chunks and whatever else was on the lines between them, the extraction run on
\* the accumulated buffer succeeds exactly when one run on the complete document
\* succeeds, and it applies the same array.
C5_ChunkingDoesNotMatter ==
  [][(step' = "StreamEnd" /\ sent = Len(doc)) =>
       /\ calls'[1].ok = OneShot(doc).ok
       /\ calls'[1].ok => calls'[1].after = OneShot(doc).val]_vars

\* The fenced document has arrived over several reads and its array is applied.
C5_Witness ==
  /\ step = "StreamEnd"
  /\ pc \in {"thumbnail", "saving"}
  /\ Len(doc) > MaxChunk
  /\ doc[1] = BT
  /\ sent = Len(doc)
  /\ calls[1].ok
  /\ calls[1].after = OneShot(doc).val
  /\ elements = OneShot(doc).val

\* C6: every tryParseAndApply call that fails, for want of an array or for a
\* parse error, leaves elements as it found it.
C6_FailedExtractionKeepsDiagram ==
  \A i \in 1..Len(calls) : ~calls[i].ok => calls[i].after = calls[i].before

\* A call has failed on a parse error while a Diagram was on the canvas.
C6_Witness ==
  /\ calls # <<>>
  /\ ~calls[Len(calls)].ok
  /\ jsonError = SyntaxErrorShown
  /\ calls[Len(calls)].before # EmptyArray
  /\ elements = calls[Len(calls)].before

\* val is what JSON.parse makes of code from its first '[' to its last ']'.
IsCompleteParseOf(val, code) ==
  /\ code.t = "string"
  /\ LET t == Trim(code.v)
         opens == IndicesOf(t, "[")
         closes == IndicesOf(t, "]")
     IN /\ opens # {}
        /\ closes # {}
        /\ MinOf(opens) < MaxOf(closes)
        /\ JSONparse(SubSeq(t, MinOf(opens), MaxOf(closes))).ok
        /\ JSONparse(SubSeq(t, MinOf(opens), MaxOf(closes))).val = val

\* C7: elements is always an array, the empty one at first, and whenever a step
\* changes it the new value is the complete parse of the array of a text handed
\* to tryParseAndApply in that step.
C7_DiagramIsACompleteParse ==
  /\ [](elements.t = "array")
  /\ [][elements' # elements =>
          \E i \in 1..Len(calls') :
            /\ calls'[i].ok
            /\ calls'[i].after = elements'
            /\ IsCompleteParseOf(elements', calls'[i].code)]_vars

\* A generation has replaced the Diagram that was on the canvas by the array
\* of its repaired text.
C7_Witness ==
  /\ step = "StreamEnd"
  /\ calls[1].before # EmptyArray
  /\ calls[2].ok
  /\ elements = calls[2].after
  /\ elements # calls[1].before
  /\ \E i \in 1..Len(generatedCode.v) : generatedCode.v[i] = BS

C9_ErrorPayloadAbandonsGeneration ==
  [][/\ (~upstreamError /\ upstreamError') => apiError' # NoError
     /\ upstreamError =>
          /\ accumulatedCode' \in {accumulatedCode, <<>>}
          /\ step' # "StreamEnd"
          /\ history' = history]_vars

\* C10 as stated: while no error payload has arrived, a read of the stream sets
\* neither apiError nor jsonError.
C10_NoErrorShownWhileStreaming ==
  [][(step' = "ReadChunk" /\ ~upstreamError') =>
       apiError' = apiError /\ jsonError' = jsonError]_vars

(***************************************************************************)
(* Claims about the optimizer (checked under SpecOptimizer)                *)
(***************************************************************************)
\* C11 as stated: a second run of autoFixDiagram, on the elements the first
\* run returned, reports no fix and hasIssues = false.
C11_AutoFixIdempotent ==
  opc = "autoFixDiagram again" => oout.fixes = <<>> /\ ~oout.hasIssues

\* The box of the claim: width 100 and height 50 only where the element has none.
BoxWhenAbsent(el) ==
  [x |-> el.x, y |-> el.y,
   width |-> IF Has(el.width) THEN el.width[1] ELSE 100,
   height |-> IF Has(el.height) THEN el.height[1] ELSE 50]

Intersect(a, b) ==
  /\ a.x < b.x + b.width /\ a.x + a.width > b.x
  /\ a.y < b.y + b.height /\ a.y + a.height > b.y

\* The unordered pairs of ids a list of overlaps holds.
PairSet(overlaps) == {{overlaps[k].elementA, overlaps[k].elementB} : k \in 1..Len(overlaps)}

\* C12 as stated: detectOverlaps reports, once each, exactly the pairs of
\* distinct elements that are neither arrow nor line and whose boxes, with 100
\* and 50 standing in for an absent width and height, intersect strictly.
C12_OverlapsAreTheIntersectingBoxes ==
  opc = "detectOverlaps" =>
    /\ PairSet(oout.overlaps) =
         {{oin[i].id, oin[j].id} : <<i, j>> \in
            {q \in (1..Len(oin)) \X (1..Len(oin)) :
               /\ q[1] < q[2]
               /\ oin[q[1]].type \notin {"arrow", "line"}
               /\ oin[q[2]].type \notin {"arrow", "line"}
               /\ Intersect(BoxWhenAbsent(oin[q[1]]), BoxWhenAbsent(oin[q[2]]))}}
    /\ Cardinality(PairSet(oout.overlaps)) = Len(oout.overlaps)

Bijections(n) == {p \in [1..n -> 1..n] : \A i, j \in 1..n : p[i] = p[j] => i = j}
Permuted(elems, p) == [i \in 1..Len(elems) |-> elems[p[i]]]

\* C13: for every order of the same elements detectOverlaps reports the same
\* set of unordered pairs, and no pair holds one element twice.
C13_OverlapsIgnoreOrder ==
  opc = "detectOverlaps" =>
    /\ \A p \in Bijections(Len(oin)) :
         PairSet(detectOverlaps(Permuted(oin, p))) = PairSet(oout.overlaps)
    /\ \A k \in 1..Len(oout.overlaps) : oout.overlaps[k].elementA # oout.overlaps[k].elementB

\* Three elements of which some overlap and some do not.
C13_Witness ==
  /\ opc = "detectOverlaps"
  /\ Len(oin) = 3
  /\ \A i \in 1..3 : oin[i].type \notin {"arrow", "line"}
  /\ Len(oout.overlaps) \in {1, 2}
  /\ oout.overlaps[1].elementA < oout.overlaps[1].elementB

\* C14: applyColorPalette gives the element at index i (position i + 1) the
\* stroke colors[i mod colors.length] when it is a rectangle, ellipse, diamond,
\* arrow or line, and colors[0] when it is a text; the first three kinds get the
\* palette's background too.  On a 2-color list, three rectangles get
\* colors[0], colors[1], colors[0].
C14_PaletteIsPositional ==
  /\ opc = "applyColorPalette" =>
       LET palette == IF ocolors.key \in DOMAIN COLOR_PALETTES THEN COLOR_PALETTES[ocolors.key]
                      ELSE COLOR_PALETTES.professional
           n == Len(palette.colors)
       IN \A i \in 1..Len(oin) :
            /\ oin[i].type \in {"rectangle", "ellipse", "diamond", "arrow", "line"} =>
                 oout.elements[i].strokeColor = Val(palette.colors[((i - 1) % n) + 1])
            /\ oin[i].type \in {"rectangle", "ellipse", "diamond"} =>
                 oout.elements[i].backgroundColor = Val(palette.background)
            /\ oin[i].type = "text" => oout.elements[i].strokeColor = Val(palette.colors[1])
  /\ LET r == Element(0, "rectangle", 0, 0, Val(100), Val(50), Absent, Absent)
         out == PaletteMap(<<r, r, r>>, <<"c0", "c1">>, "bg")
     IN <<out[1].strokeColor, out[2].strokeColor, out[3].strokeColor>> = <<Val("c0"), Val("c1"), Val("c0")>>

\* A palette was applied to a diagram longer than it: the arrow at index 4 has
\* the last color, the line at index 5 the first again, and so has the text
\* after it.
C14_Witness ==
  /\ opc = "applyColorPalette"
  /\ ocolors.key = "warm"
  /\ Len(oin) > 6
  /\ oin[5].type = "arrow"
  /\ oout.elements[5].strokeColor = Val("#fb923c")
  /\ oin[6].type = "line"
  /\ oout.elements[6].strokeColor = Val("#f97316")
  /\ oin[7].type = "text"
  /\ oout.elements[7].strokeColor = Val("#f97316")

\* C15 as stated: applyColorScheme returns what the palette rule returns for
\* colors = [primary, secondary, accent] and the scheme's background.
C15_SchemeIsThePaletteRule ==
  opc = "applyColorScheme" =>
    oout.elements =
      PaletteMap(oin, <<ocolors.scheme.primary, ocolors.scheme.secondary, ocolors.scheme.accent>>,
                 ocolors.scheme.background)

\* C16: autoFixDiagram, applyColorPalette and applyColorScheme return as many
\* elements as they were given, each with the id and the type of the element
\* at its position.
C16_LengthIdAndKindKept ==
  opc \in {"autoFixDiagram", "applyColorPalette", "applyColorScheme"} =>
    /\ Len(oout.elements) = Len(oin)
    /\ \A i \in 1..Len(oin) :
         oout.elements[i].id = oin[i].id /\ oout.elements[i].type = oin[i].type

\* A run has changed elements of a diagram that also holds an element of a
\* kind none of the rules names.
C16_Witness ==
  /\ opc \in {"autoFixDiagram", "applyColorPalette", "applyColorScheme"}
  /\ oout.elements # oin
  /\ \E i \in 1..Len(oin) : oin[i].type = "image"
  /\ \E i \in 1..Len(oin) : oin[i].type = "text"

(***************************************************************************)
(* Claims about the history store (checked under SpecHistory)              *)
(***************************************************************************)
\* C17: once saveDiagramToHistory has resolved, the history store is never
\* seen to hold more than MAX_HISTORY_ITEMS diagrams: a getHistoryStats
\* called after the save resolves with totalDiagrams <= MAX_HISTORY_ITEMS.
C17_StoreWithinLimitOnceSaved ==
  (\E i \in Savers : saves[i] = "resolved") => totalDiagrams <= MAX_HISTORY_ITEMS

(***************************************************************************)
(* Claims about the generation's history entry and its writers (checked    *)
(* under Spec)                                                             *)
(***************************************************************************)
\* tryParseAndApply(code) extracts an array from code and applies it.
Applies(code) ==
  LET ui == tryParseAndApply(UI, code, "generate")
  IN ui.calls[Len(ui.calls)].ok

\* C18: saveDiagramToHistory is called only with a final code that was
\* extracted and applied as an element array, so every entry a generation
\* saved is such a code; a final text without a JSON array, or one that does
\* not parse, saves nothing.
C18_SavedOnlyAfterExtraction ==
  /\ pc = "saving" => Applies(optimizedCode)
  /\ \A code \in history : Applies(code)

\* C19: while a generation is in flight (isGenerating) no second generation
\* starts, and no apply, optimize, file-open or history-load step replaces
\* elements or generatedCode.
C19_NoConcurrentWriter ==
  [][isGenerating =>
       /\ step' # "Send"
       /\ step' \in {"ApplyFire", "OptimizeFire", "FileOpen", "LoadDiagram"} =>
            elements' = elements /\ generatedCode' = generatedCode]_vars

\* The content payloads the stream has delivered: those of the lines that
\* were completed, and that of a content line buffer holds whole.
Delivered ==
  SubSeq(doc, 1, sent) \o (IF buffer.kind = "content" THEN buffer.text ELSE << >>)

\* C20: within a generation accumulatedCode only grows, and when the stream
\* closes it is the concatenation, in arrival order, of every content payload
\* the stream delivered.
C20_BufferIsAllDeliveredContent ==
  [][/\ (pc = "streaming" /\ pc' = "streaming") =>
          /\ Len(accumulatedCode) <= Len(accumulatedCode')
          /\ SubSeq(accumulatedCode', 1, Len(accumulatedCode)) = accumulatedCode
     /\ step' = "StreamEnd" => accumulatedCode = Delivered]_vars

(***************************************************************************)
(* Claims about the quote-repair scan (checked under SpecNormalize)        *)
(***************************************************************************)
\* The text fixUnescapedQuotes is called on.
Scanned == StripFences(ncode.v)

\* The number of backslashes that stand right before index i of s.
RunBefore(s, i) ==
  LET starts == {k \in 1..i : \A m \in k..(i - 1) : s[m] = BS}
  IN i - (CHOOSE k \in starts : \A m \in starts : k <= m)

\* The character at index i follows a backslash that is not itself escaped.
Escaped(s, i) == RunBefore(s, i) % 2 = 1

\* C21: a quote that follows a backslash that is not itself escaped is copied
\* through like any other character: the scan's result is what it would be
\* with a letter in the quote's place, so the quote opens and closes no string,
\* and the backslashes before it are as many as before, so it is not escaped a
\* second time.
C21_EscapedQuoteCopiedThrough ==
  (CalledOnText /\ ~ParsesAsIs(Scanned)) =>
    \A i \in 1..Len(Scanned) :
      (Scanned[i] = DQ /\ Escaped(Scanned, i)) =>
        LET u == fixUnescapedQuotes([Scanned EXCEPT ![i] = "h"])
        IN /\ Len(u) = Len(OutText)
           /\ \E p \in 2..Len(u) :
                /\ u[p] = "h"
                /\ OutText = [u EXCEPT ![p] = DQ]
                /\ RunBefore(OutText, p) = RunBefore(Scanned, i)

\* A string value that holds an escaped quote and then a bare quote has been
\* repaired: the bare quote was escaped.
C21_Witness ==
  /\ npc = "done"
  /\ nsrc.family = "quoted"
  /\ nsrc.body = <<BS, DQ, DQ>>
  /\ ~ParsesAsIs(Scanned)
  /\ OutText # Scanned
  /\ JSONparse(OutText).ok

(***************************************************************************)
(* Claims about the rules of auto-fix (checked under SpecOptimizer)        *)
(***************************************************************************)
\* The fixes of the last run that carry the id of el and name the issue.
FixesFor(el, issue) ==
  {k \in 1..Len(oout.fixes) : oout.fixes[k].id = el.id /\ oout.fixes[k].issue = issue}

\* "width or 100": the value, or the default when it is absent or 0.
ValueOr(field, default) == IF field = << >> \/ field[1] = 0 THEN default ELSE field[1]

Larger(a, b) == IF a > b THEN a ELSE b

\* width present and below 50, or height present and below 30.
BelowMinimum(el) ==
  \/ el.width # << >> /\ el.width[1] < 50
  \/ el.height # << >> /\ el.height[1] < 30

\* An arrow or line whose width is exactly 0.
FlatConnector(el) == el.type \in {"arrow", "line"} /\ el.width = <<0>>

Triggered(el) ==
  (IF BelowMinimum(el) THEN {"size"} ELSE {})
    \cup (IF FlatConnector(el) THEN {"width"} ELSE {})
    \cup (IF el.type = "text" /\ (el.text = << >> \/ Trim(el.text[1]) = << >>) THEN {"text"} ELSE {})
    \cup (IF el.opacity # << >> /\ (el.opacity[1] < 0 \/ el.opacity[1] > 100) THEN {"opacity"} ELSE {})

\* C23: an arrow or line of width exactly 0 comes back with width 1 and a
\* zero-width Fix; every rule that triggers on an element is logged as one Fix
\* of its own and no other Fix is logged; an element on which no rule
\* triggers comes back as it was.
C23_ZeroWidthAndOneFixPerRule ==
  opc = "autoFixDiagram" =>
    /\ \A i \in 1..Len(oin) :
         LET el == oin[i]
         IN /\ FlatConnector(el) => oout.elements[i].width = <<1>>
            /\ \A issue \in {"size", "width", "text", "opacity"} :
                 Cardinality(FixesFor(el, issue)) = (IF issue \in Triggered(el) THEN 1 ELSE 0)
            /\ Triggered(el) = {} => oout.elements[i] = el
    /\ \A k \in 1..Len(oout.fixes) : \E i \in 1..Len(oin) : oout.fixes[k].id = oin[i].id

\* A zero-width arrow came back with width 1, next to an element two rules
\* triggered on and one no rule triggered on.
C23_Witness ==
  /\ opc = "autoFixDiagram"
  /\ \E i \in 1..Len(oin) : FlatConnector(oin[i]) /\ oout.elements[i].width = <<1>>
  /\ \E i \in 1..Len(oin) : Triggered(oin[i]) = {"size", "opacity"}
  /\ \E i \in 1..Len(oin) : Triggered(oin[i]) = {} /\ oout.elements[i] = oin[i]

(***************************************************************************)
(* Claims about the errors of a generation (checked under Spec)            *)
(***************************************************************************)
\* C24: when the fetch rejects the network-connection message is shown; when
\* the server answers with a non-OK status another message is shown, the
\* server's error text or the status text; either way the call ends without
\* reading a stream and without an extraction, and elements stay as they were.
C24_NetworkAndStatusMessagesDiffer ==
  [][/\ step' = "FetchRejects" => apiError' = NetworkError
     /\ step' = "ErrorBodyRead" => apiError'.kind = "message"
     /\ step' \in {"FetchRejects", "ErrorBodyRead"} =>
          /\ pc' = "idle"
          /\ accumulatedCode' = << >>
          /\ calls' = << >>
          /\ elements' = elements]_vars

(***************************************************************************)
(* Claims about the provider configurations (checked under SpecConfig)     *)
(***************************************************************************)
\* The last call has returned or raised.
ConfigReturned == request = NoRequest

Listed(cfg) == {cfg.providers[i] : i \in 1..Len(cfg.providers)}

\* C25: when the provider deleted in the configuration dialog is the current
\* provider, onSave is called with the configuration of the new current
\* provider, or with null when no provider remains.
C25_DeletingCurrentNotifiesParent ==
  [][(/\ outcome'.op = "handleDeleteProvider"
      /\ cops' = cops + 1
      /\ storage.currentProviderId = outcome'.providerId
      /\ allConfigs.currentProviderId = outcome'.providerId)
     => onSave' = Append(onSave, CurrentOf(storage'))]_vars

\* C26: after any sequence of saveProvider, deleteProvider and
\* setCurrentProvider calls from an empty configuration, currentProviderId
\* is null or the id of a stored provider; a deleteProvider of the current
\* provider leaves the first remaining provider current, or null when none
\* remains; a setCurrentProvider of an id that is not stored raises
\* 'Provider not found' and leaves the configuration as it was.
C26_CurrentProviderIsStoredOrNull ==
  /\ \/ storage.currentProviderId = Null
     \/ findIndex(storage.providers, storage.currentProviderId) > 0
  /\ (/\ ConfigReturned
      /\ outcome.op = "deleteProvider"
      /\ outcome.raised = ""
      /\ outcome.before.currentProviderId = outcome.providerId)
     => storage.currentProviderId =
          IF storage.providers = << >> THEN Null ELSE storage.providers[1].id
  /\ (/\ ConfigReturned
      /\ outcome.op = "setCurrentProvider"
      /\ findIndex(outcome.before.providers, outcome.providerId) = 0)
     => /\ outcome.raised = "Provider not found"
        /\ storage = outcome.before

\* The current provider was deleted while another one was stored, and a
\* setCurrentProvider of an id that is not stored has raised.
C26_Witness ==
  /\ ConfigReturned
  /\ outcome.op = "deleteProvider"
  /\ outcome.raised = ""
  /\ outcome.before.currentProviderId = outcome.providerId
  /\ Len(outcome.before.providers) = 2
  /\ outcome.before.providers[1].id = outcome.providerId
  /\ Len(storage.providers) = 1
  /\ storage.currentProviderId = outcome.before.providers[2].id

C26_WitnessNotFound ==
  /\ ConfigReturned
  /\ outcome.op = "setCurrentProvider"
  /\ outcome.raised = "Provider not found"
  /\ storage.providers # << >>

\* C30: the saveProvider of the server-backed lib/config keeps every other
\* stored provider, also when the load of the configuration before it fails.
C30_SaveKeepsOtherProviders ==
  (/\ backend = "server"
   /\ ConfigReturned
   /\ outcome.op = "saveProvider"
   /\ outcome.raised = "")
  => \A other \in Listed(outcome.before) :
       other.id # outcome.providerId => other \in Listed(storage)

(***************************************************************************)
(* Claims about the calls that change stored diagrams (checked under       *)
(* SpecHistoryEdit)                                                        *)
(***************************************************************************)
\* A request of deleteDiagrams is still to be served.
BatchRequestLeft == \E k \in 1..Len(transactions) : transactions[k].kind = "deleteDiagrams"

\* C28: deleteDiagrams(ids) resolves or rejects in the end for every list of
\* ids, the empty list included: while it has done neither, a request whose
\* callback will settle it is still to be served. It resolves only after
\* every requested delete has succeeded, and it rejects at most once, on the
\* first failed delete.
C28_DeleteDiagramsSettles ==
  /\ batch.state = "pending" => BatchRequestLeft
  /\ batch.state = "resolved" =>
       /\ batch.completed = Len(batch.ids)
       /\ ~batch.failed
  /\ batch.resolves + batch.rejects <= 1
  /\ batch.failed => batch.state = "rejected" /\ batch.rejectedAt = batch.completed + 1

\* Both the updateDiagram and the deleteDiagram or clearAllHistory of the
\* run have finished.
BothFinished ==
  /\ update.state \in {"resolved", "rejected"}
  /\ removal.state = "resolved"

\* C29: a deleted diagram is never created again by an update: when
\* deleteDiagram(id) or clearAllHistory completes while updateDiagram(id,
\* updates) is between its read and its write, the store holds no entry with
\* that id once both have finished; updateDiagram of an id that is not
\* stored raises 'Diagram not found' and writes nothing.
C29_DeletedDiagramNotRecreated ==
  /\ (/\ BothFinished
      /\ removal.afterRead
      /\ removal.kind = "clearAllHistory" \/ removal.id = update.id)
     => get(diagrams, update.id) = NoItem
  /\ (update.state \in {"put", "resolved", "rejected"} /\ update.diagram = NoItem)
     => /\ update.state = "rejected"
        /\ update.raised = "Diagram not found"
        /\ ~update.wrote
        /\ \A k \in 1..Len(transactions) : transactions[k].kind # "update"

(***************************************************************************)
(* Claims about the end of a generation (checked under SpecLive)           *)
(***************************************************************************)
\* C27: every handleSendMessage call that sets isGenerating to true sets it
\* back to false in the end, however the call ends; a call made with an
\* invalid provider configuration sends no request and does not set
\* isGenerating.
C27_GeneratingEnds ==
  /\ isGenerating ~> ~isGenerating
  /\ [][step' = "SendRefused" =>
          /\ isGenerating' = isGenerating
          /\ ~isGenerating'
          /\ pc' = "idle"
          /\ sends' = sends]_vars

\* A generation has ended in the failure of the save to the history.
C27_Witness ==
  /\ step = "SaveRejects"
  /\ ~isGenerating
  /\ sends = 1

====
